---- MODULE Spec2Model ----
(***************************************************************************)
(* Model of the AutoMapper core of PyPA: the path-search mapping pass      *)
(* (AutoMapper/PathSearch.py, QueueFuncs.py, AtomObjectBuilder.py,         *)
(* LammpsSearchFuncs.py) and the template reducer and emitter              *)
(* (AutoMapper/MapProcessor.py).                                           *)
(*                                                                         *)
(* Atom ids are the numeric strings of the molecule files, modelled as     *)
(* positive integers (natsorted on them is numeric order).  Python's None  *)
(* is modelled as the id 0, and a list argument that is None as <<0>>.     *)
(***************************************************************************)
EXTENDS Integers, Sequences, FiniteSets, TLC

VARIABLES
    bonds,                \* <<pre, post>>: the Bonds sections (atomA, atomB)
    types,                \* <<pre, post>>: the Types sections, id -> kind
    hashOrder,            \* ranking of ids that fixes list(set) iteration
    args,                 \* the arguments of the map_processor call
    preBondingAtoms, postBondingAtoms,
    preDeleteAtoms, postDeleteAtoms,
    createAtoms,
    preAtomObjectDict, postAtomObjectDict,
    mappedIDList,
    missingPreAtomList, missingPostAtomList,
    queue,
    timeoutCounter, inference, missingPreAtomCount,
    missingPreAtomsBefore,        \* len(missingPreAtomList) at line 135 of the current round
    prePartialAtomsSet, postPartialAtomsSet,
    preEdgeAtoms,
    partialMappedIDList,
    preRenumberedAtomDict, postRenumberedAtomDict,
    outputData,
    pc,                   \* the position of the computation
    run, firstResult,     \* a second run on the same input; the first run's
                          \* result and iteration order
    cwd, thread,          \* the working directory of the process, its threads
    symmetryCall          \* a call of compare_symmetric_atoms: its arguments
                          \* and what it returned

----------------------------------------------------------------------------
(* Generic sequence helpers (Python list operations).                      *)

None == 0
NoneList == <<0>>

Range(s) == {s[i] : i \in 1..Len(s)}

\* dict.values()
Values(d) == {d[k] : k \in DOMAIN d}

\* list.count(x)
Count(s, x) == Cardinality({i \in 1..Len(s) : s[i] = x})

\* list.index(x), 1-based; 0 when absent
IndexOf(s, x) ==
    IF \E i \in 1..Len(s) : s[i] = x
    THEN CHOOSE i \in 1..Len(s) : s[i] = x /\ \A j \in 1..(i-1) : s[j] # x
    ELSE 0

\* list.pop(i), 1-based
RemoveAt(s, i) == [j \in 1..(Len(s)-1) |-> IF j < i THEN s[j] ELSE s[j+1]]

\* [x for x in s if x not in S]
Without(s, S) == SelectSeq(s, LAMBDA x : x \notin S)

\* column of a list of pairs: [row[k] for row in pairs]
Column(pairs, k) == [i \in 1..Len(pairs) |-> pairs[i][k]]

\* list(aSet): the elements in the iteration order of a Python set, which the
\* hashes of the id strings fix for the whole process (hashOrder ranks them)
RECURSIVE SetToList(_, _)
SetToList(S, order) ==
    IF S = {} THEN <<>>
    ELSE LET x == CHOOSE y \in S : \A z \in S : order[y] <= order[z]
         IN  <<x>> \o SetToList(S \ {x}, order)

----------------------------------------------------------------------------
(* Element table (element_atomID_dict) and fingerprints.                   *)

\* --ebt: element symbol of each kind (atom type), upper-cased
elementsByType == <<"C", "C", "H", "N">>

\* alphabetical order of the element symbols (sorted() on strings)
ElementRank(e) == CASE e = "C" -> 1 [] e = "H" -> 2 [] e = "N" -> 3

\* elementIDDict = {id: elementsByTypeDict[int(type)]}
element_atomID_dict(typesOfFile) ==
    [a \in DOMAIN typesOfFile |-> elementsByType[typesOfFile[a]]]

\* get_elements(neighbourIDs, elementDict)
get_elements(neighbourIDs, elementDict) ==
    [i \in 1..Len(neighbourIDs) |-> elementDict[neighbourIDs[i]]]

\* sorted(elements): insertion sort of element symbols, alphabetically
RECURSIVE InsertElement(_, _)
InsertElement(s, e) ==
    IF s = <<>> THEN <<e>>
    ELSE IF ElementRank(e) < ElementRank(Head(s)) THEN <<e>> \o s
    ELSE <<Head(s)>> \o InsertElement(Tail(s), e)

RECURSIVE SortedElements(_)
SortedElements(elements) ==
    IF elements = <<>> THEN <<>>
    ELSE InsertElement(SortedElements(Tail(elements)), Head(elements))

\* a fingerprint that joins the element symbols without sorting them
JoinedUnsorted(elements) == elements

\* ''.join(sorted(elements)): the element symbols here are single letters, so
\* the joined string determines the sorted list and is modelled by it
Fingerprint(elements) == SortedElements(elements)

----------------------------------------------------------------------------
(* Molecule graph builder.                                                 *)

\* get_neighbours: every bond appends each end to the other end's list
RECURSIVE get_neighbours(_, _)
get_neighbours(bondsList, atom) ==
    IF bondsList = <<>> THEN <<>>
    ELSE LET bond == Head(bondsList)
             here == (IF bond[1] = atom THEN <<bond[2]>> ELSE <<>>)
                     \o (IF bond[2] = atom THEN <<bond[1]>> ELSE <<>>)
         IN  here \o get_neighbours(Tail(bondsList), atom)

\* a neighboursDict that keeps the create atoms as neighbours
neighbours_with_create(atomIDs, bondsList, create) ==
    [a \in atomIDs |-> get_neighbours(bondsList, a)]

\* neighboursDict of build_atom_objects, create atoms removed as neighbours
neighboursDictOf(atomIDs, bondsList, create) ==
    [a \in atomIDs |->
        IF create = NoneList THEN get_neighbours(bondsList, a)
        ELSE Without(get_neighbours(bondsList, a), Range(create))]

\* get_additional_neighbours with unique=True
get_additional_neighbours(neighboursDict, searchAtomID, searchNeighbours, bondingAtoms, order) ==
    LET total == UNION {Range(neighboursDict[n]) : n \in Range(searchNeighbours)}
        initial == IF neighboursDict[searchAtomID] # searchNeighbours
                   THEN Range(neighboursDict[searchAtomID]) ELSE {}
    IN  SetToList(total \ ({searchAtomID} \cup Range(bondingAtoms)
                           \cup Range(searchNeighbours) \cup initial), order)

\* Atom.__init__ for every atom of one molecule file
build_atom_objects(bondsList, typesOfFile, bondingAtoms, create, order) ==
    LET atomIDs == DOMAIN typesOfFile
        nd == neighboursDictOf(atomIDs, bondsList, create)
        keys == IF create = NoneList THEN atomIDs ELSE atomIDs \ Range(create)
    IN  [a \in keys |->
            LET second == get_additional_neighbours(nd, a, nd[a], bondingAtoms, order)
                third == get_additional_neighbours(nd, a, second, bondingAtoms, order)
            IN  [atomType |-> typesOfFile[a],
                 element |-> elementsByType[typesOfFile[a]],
                 bondingAtom |-> a \in Range(bondingAtoms),
                 mappedNeighbourIDs |-> nd[a],
                 firstNeighbourIDs |-> nd[a],
                 secondNeighbourIDs |-> second,
                 thirdNeighbourIDs |-> third]]

\* list(atomObjectDict.keys()): the ids in the order of the Types section,
\* which the molecule files list in ascending id order
KeysOf(atomObjectDict) == SetToList(DOMAIN atomObjectDict, [a \in DOMAIN atomObjectDict |-> a])

\* the element list parallel to an id list of an Atom (get_elements)
ElementsOf(atomObjectDict, ids) ==
    [i \in 1..Len(ids) |-> atomObjectDict[ids[i]].element]

----------------------------------------------------------------------------
(* Symmetry resolver.                                                      *)

\* getattr(atomObject, neighbourLevel) for the three element lists
LevelElements(atomObjectDict, a, neighbourLevel) ==
    CASE neighbourLevel = "firstNeighbourElements" ->
            ElementsOf(atomObjectDict, atomObjectDict[a].firstNeighbourIDs)
      [] neighbourLevel = "secondNeighbourElements" ->
            ElementsOf(atomObjectDict, atomObjectDict[a].secondNeighbourIDs)
      [] neighbourLevel = "thirdNeighbourElements" ->
            ElementsOf(atomObjectDict, atomObjectDict[a].thirdNeighbourIDs)

\* the fingerprint of every candidate at one neighbour level
neighbourFingerprintOf(candidates, postDict, neighbourLevel) ==
    [i \in 1..Len(candidates) |->
        Fingerprint(LevelElements(postDict, candidates[i], neighbourLevel))]

\* indices of the fingerprints that equal fp, duplicated ones included
any_matches(neighbourFingerprint, fp) ==
    {i \in 1..Len(neighbourFingerprint) : neighbourFingerprint[i] = fp}

\* indices of the fingerprints that occur once in the list and equal fp
UniqueMatches(neighbourFingerprint, fp) ==
    {i \in 1..Len(neighbourFingerprint) :
        /\ Count(neighbourFingerprint, neighbourFingerprint[i]) = 1
        /\ neighbourFingerprint[i] = fp}

Min(S) == CHOOSE x \in S : \A y \in S : x <= y
Max(S) == CHOOSE x \in S : \A y \in S : y <= x
MinOrNone(S) == IF S = {} THEN None ELSE Min(S)

\* the scan of compare_neighbours over the unique fingerprints
compare_fingerprints(neighbourFingerprint, preNeighbourFingerprint) ==
    IF UniqueMatches(neighbourFingerprint, <<>>) # {} THEN None
    ELSE MinOrNone(UniqueMatches(neighbourFingerprint, preNeighbourFingerprint))

\* compare_neighbours(neighbourLevel): index (1-based) of the first candidate
\* whose fingerprint is unique among the candidates and equals the pre atom's,
\* None when a unique fingerprint is empty or nothing matches
compare_neighbours(candidates, postDict, preAtom, preDict, neighbourLevel) ==
    compare_fingerprints(neighbourFingerprintOf(candidates, postDict, neighbourLevel),
                         Fingerprint(LevelElements(preDict, preAtom, neighbourLevel)))

\* the result in the requested output type
SymmetryOutput(candidates, index, outputType) ==
    IF outputType = "index" THEN index ELSE candidates[index]

\* "if symmetryResult is None": the next neighbour level is tried
IfNone(symmetryResult, nextLevel) ==
    IF symmetryResult # None THEN symmetryResult ELSE nextLevel

\* the three levels of compare_symmetric_atoms, nearest first
symmetryResultOf(candidates, postDict, preAtom, preDict) ==
    IfNone(compare_neighbours(candidates, postDict, preAtom, preDict, "firstNeighbourElements"),
      IfNone(compare_neighbours(candidates, postDict, preAtom, preDict, "secondNeighbourElements"),
             compare_neighbours(candidates, postDict, preAtom, preDict, "thirdNeighbourElements")))

\* possibleChoices of the inference: the candidates of the pre atom's element
possibleChoices(candidates, postDict, preAtom, preDict) ==
    {i \in 1..Len(candidates) : postDict[candidates[i]].element = preDict[preAtom].element}

\* an inference that takes the last possible choice
infer_last(symmetryResult, candidates, postDict, preAtom, preDict, outputType, allowInference) ==
    IF symmetryResult # None THEN SymmetryOutput(candidates, symmetryResult, outputType)
    ELSE IF allowInference
         THEN SymmetryOutput(candidates,
                             Max(possibleChoices(candidates, postDict, preAtom, preDict)),
                             outputType)
         ELSE None

\* the end of compare_symmetric_atoms: the symmetry result, else the first
\* possible choice when inference is allowed, else None
symmetry_or_inference(symmetryResult, candidates, postDict, preAtom, preDict, outputType, allowInference) ==
    IF symmetryResult # None THEN SymmetryOutput(candidates, symmetryResult, outputType)
    ELSE IF allowInference
         THEN SymmetryOutput(candidates,
                             Min(possibleChoices(candidates, postDict, preAtom, preDict)),
                             outputType)
         ELSE None

\* compare_symmetric_atoms(postNeighbourAtomObjectList, preNeighbourAtom,
\*                         outputType, allowInference)
compare_symmetric_atoms(candidates, postDict, preAtom, preDict, outputType, allowInference) ==
    symmetry_or_inference(symmetryResultOf(candidates, postDict, preAtom, preDict),
                          candidates, postDict, preAtom, preDict, outputType, allowInference)

----------------------------------------------------------------------------
(* Worklist propagator: Atom.check_mapped and Atom.map_elements.           *)

\* an atom whose remaining neighbour list is left as it is
keep_mapped(atomObjectDict, a, mappedIDs, searchIndex) == atomObjectDict

\* a check_mapped that prunes the fixed first neighbour list as well, as if
\* firstNeighbourIDs were no copy of the list
prune_first_neighbours(atomObjectDict, a, mappedIDs, searchIndex) ==
    [atomObjectDict EXCEPT
        ![a].mappedNeighbourIDs = Without(@, Range(Column(mappedIDs, searchIndex))),
        ![a].firstNeighbourIDs = Without(@, Range(Column(mappedIDs, searchIndex)))]

\* Atom.check_mapped: drop the ids already mapped on this atom's side
check_mapped(atomObjectDict, a, mappedIDs, searchIndex) ==
    [atomObjectDict EXCEPT ![a].mappedNeighbourIDs =
        Without(@, Range(Column(mappedIDs, searchIndex)))]

\* an allowedMapDict that allows every element
allow_all(preElements, postElements) == [e \in Range(preElements) |-> TRUE]

\* allowed_maps: per element of the pre atom's remaining list, whether the
\* two remaining lists hold it equally often; hydrogen is always allowed
allowed_maps(preElements, postElements) ==
    [e \in Range(preElements) |->
        IF e = "H" THEN TRUE ELSE Count(preElements, e) = Count(postElements, e)]

\* indices of s holding x, ascending
IndicesOf(s, x) == {i \in 1..Len(s) : s[i] = x}

\* the atoms of a list that have the given element
OfElement(ids, atomObjectDict, element) ==
    SelectSeq(ids, LAMBDA x : atomObjectDict[x].element = element)

\* a choice of the post atom that ignores the elements: the first of the
\* post atom's remaining neighbours
first_remaining(preID, neighbour, allowed, postIDs, postElements, preDict, postDict) ==
    IF postIDs = <<>> THEN 0 ELSE 1

\* the branches of map_elements for one neighbour of the pre atom: the index
\* in postIDs of the post atom matched to preID, 0 when there is none
postIndexOf(preID, neighbour, allowed, postIDs, postElements, preDict, postDict) ==
    IF ~allowed THEN 0
    ELSE IF Count(postElements, neighbour) = 0 THEN 0
    ELSE IF Count(postElements, neighbour) = 1 THEN IndexOf(postElements, neighbour)
    ELSE IF neighbour = "H" THEN Max(IndicesOf(postElements, "H"))
    ELSE IndexOf(postIDs,
                 compare_symmetric_atoms(OfElement(postIDs, postDict, neighbour), postDict,
                                         preID, preDict, "atomID", TRUE))

\* a matchNeighbour that queues the pairs of hydrogens as well
match_and_queue(acc, preID, neighbour, postIndex) ==
    IF postIndex = 0
    THEN [acc EXCEPT !.missingPreAtoms = Append(@, preID)]
    ELSE [mapList |-> Append(acc.mapList, <<preID, acc.postIDs[postIndex]>>),
          missingPreAtoms |-> acc.missingPreAtoms,
          queueAtoms |-> Append(acc.queueAtoms, <<preID, acc.postIDs[postIndex]>>),
          postIDs |-> RemoveAt(acc.postIDs, postIndex)]

\* matchNeighbour, or the pre atom is recorded missing; acc holds mapList,
\* missingPreAtoms, queueAtoms and the post atom's remaining list postIDs,
\* popped on every match
matchNeighbour(acc, preID, neighbour, postIndex) ==
    IF postIndex = 0
    THEN [acc EXCEPT !.missingPreAtoms = Append(@, preID)]
    ELSE [mapList |-> Append(acc.mapList, <<preID, acc.postIDs[postIndex]>>),
          missingPreAtoms |-> acc.missingPreAtoms,
          queueAtoms |-> IF neighbour # "H"
                         THEN Append(acc.queueAtoms, <<preID, acc.postIDs[postIndex]>>)
                         ELSE acc.queueAtoms,
          postIDs |-> RemoveAt(acc.postIDs, postIndex)]

\* one turn of the loop of map_elements
map_elements_turn(preID, neighbour, allowedMapDict, preDict, postDict, acc) ==
    matchNeighbour(acc, preID, neighbour,
                   postIndexOf(preID, neighbour, allowedMapDict[neighbour], acc.postIDs,
                               ElementsOf(postDict, acc.postIDs), preDict, postDict))

\* the loop of map_elements over the pre atom's remaining neighbours
RECURSIVE map_elements_loop(_, _, _, _, _, _)
map_elements_loop(preIndex, preIDs, allowedMapDict, preDict, postDict, acc) ==
    IF preIndex > Len(preIDs) THEN acc
    ELSE map_elements_loop(preIndex + 1, preIDs, allowedMapDict, preDict, postDict,
             map_elements_turn(preIDs[preIndex], preDict[preIDs[preIndex]].element,
                               allowedMapDict, preDict, postDict, acc))

\* the return of map_elements: what is left of the post list is missing
map_elements_return(r) ==
    [mapList |-> r.mapList,
     missingPreAtoms |-> r.missingPreAtoms,
     missingPostAtoms |-> Without(r.postIDs, Range(Column(r.mapList, 2))),
     queueAtoms |-> r.queueAtoms,
     postIDs |-> r.postIDs]

\* the remaining neighbour lists of the two atoms
map_elements_lists(preIDs, postIDs, preDict, postDict) ==
    map_elements_return(
        map_elements_loop(1, preIDs,
                          allowed_maps(ElementsOf(preDict, preIDs), ElementsOf(postDict, postIDs)),
                          preDict, postDict,
                          [mapList |-> <<>>, missingPreAtoms |-> <<>>, queueAtoms |-> <<>>,
                           postIDs |-> postIDs]))

\* Atom.map_elements(self = preAtom, atomObject = postAtom)
map_elements(preAtom, postAtom, preDict, postDict) ==
    map_elements_lists(preDict[preAtom].mappedNeighbourIDs,
                       postDict[postAtom].mappedNeighbourIDs, preDict, postDict)

----------------------------------------------------------------------------
(* Missing-atom reconciler.                                                *)

\* an update that forgets the missing atoms
forget_missing(missingAtomList, mappedIDs, mapIndex) == <<>>

\* update_missing_list(missingAtomList, mappedIDList, mapIndex)
update_missing_list(missingAtomList, mappedIDs, mapIndex) ==
    Without(missingAtomList, Range(Column(mappedIDs, mapIndex)))

\* match_missing(preAtom, postAtom, ...): the pair is mapped and queued unless
\* hydrogen; poppedList is the missing post list after the pop
match_missing(st, preIndex, preAtom, element, postAtom, poppedList) ==
    [missingPost |-> poppedList,
     mapList |-> Append(st.mapList, <<preAtom, postAtom>>),
     queue |-> IF element # "H" THEN Append(st.queue, <<preAtom, postAtom>>)
               ELSE st.queue,
     mappedPreAtomIndex |-> st.mappedPreAtomIndex \cup {preIndex}]

\* match_missing with a post atom found by its index in the missing post list
match_missing_at(st, preIndex, preAtom, element, postIndex) ==
    match_missing(st, preIndex, preAtom, element, st.missingPost[postIndex],
                  RemoveAt(st.missingPost, postIndex))

\* match_missing after compare_symmetric_atoms: the pop acts on
\* potentialPostAtomObjects, a copy, and the post atom stays in the missing
\* post list
match_missing_symmetric(st, preIndex, preAtom, element, potentialPostAtomObjects, symIndex) ==
    IF symIndex # None
    THEN match_missing(st, preIndex, preAtom, element, potentialPostAtomObjects[symIndex],
                       st.missingPost)
    ELSE st

\* the branches of map_missing_atoms for one missing pre atom
map_missing_turn(preIndex, preAtom, element, missingPostAtomElements, preDict, postDict, allowInference, st) ==
    IF Count(missingPostAtomElements, element) = 0 THEN st
    ELSE IF Count(missingPostAtomElements, element) = 1
         THEN match_missing_at(st, preIndex, preAtom, element,
                               IndexOf(missingPostAtomElements, element))
    ELSE IF element = "H"
         THEN match_missing_at(st, preIndex, preAtom, element,
                               Max(IndicesOf(missingPostAtomElements, "H")))
    ELSE match_missing_symmetric(st, preIndex, preAtom, element,
             OfElement(st.missingPost, postDict, element),
             compare_symmetric_atoms(OfElement(st.missingPost, postDict, element), postDict,
                                     preAtom, preDict, "index", allowInference))

\* one for-loop of map_missing_atoms over the missing pre atoms; st holds
\* missingPost (popped by match_missing), mapList, queue and mappedPreAtomIndex
RECURSIVE map_missing_pass(_, _, _, _, _, _)
map_missing_pass(preIndex, missingPre, preDict, postDict, allowInference, st) ==
    IF preIndex > Len(missingPre) THEN st
    ELSE map_missing_pass(preIndex + 1, missingPre, preDict, postDict, allowInference,
             map_missing_turn(preIndex, missingPre[preIndex],
                              preDict[missingPre[preIndex]].element,
                              ElementsOf(postDict, st.missingPost),
                              preDict, postDict, allowInference, st))

\* del missingPreAtomObjects[index] for every mapped index
RECURSIVE DeleteIndices(_, _, _)
DeleteIndices(s, idx, i) ==
    IF i > Len(s) THEN <<>>
    ELSE (IF i \in idx THEN <<>> ELSE <<s[i]>>) \o DeleteIndices(s, idx, i + 1)

\* the end of one pass of map_missing_atoms and the start of the next
RECURSIVE map_missing_atoms(_, _, _, _, _, _, _, _)
map_missing_next(missingCheckCounter, missingPre, st, preDict, postDict, allowInference) ==
    map_missing_atoms(missingCheckCounter + 1,
                      DeleteIndices(missingPre, st.mappedPreAtomIndex, 1),
                      st.missingPost, st.mapList, st.queue,
                      preDict, postDict, allowInference)

\* map_missing_atoms: up to three passes while missing post atoms remain
map_missing_atoms(missingCheckCounter, missingPre, missingPost, mapList, q, preDict, postDict, allowInference) ==
    IF missingCheckCounter < 4 /\ Len(missingPost) > 0
    THEN map_missing_next(missingCheckCounter, missingPre,
             map_missing_pass(1, missingPre, preDict, postDict, allowInference,
                 [missingPost |-> missingPost, mapList |-> mapList, queue |-> q,
                  mappedPreAtomIndex |-> {}]),
             preDict, postDict, allowInference)
    ELSE [mapList |-> mapList, queue |-> q]

----------------------------------------------------------------------------
(* Template reducer: cycle detection, retention sets, edge atoms.          *)

NoPath == <<>>
Unbound == <<0>>
NoneSet == {0}

Last(s) == s[Len(s)]

\* the for-loop of bfs over the neighbours of the node that ends path
RECURSIVE bfs_neighbours(_, _, _, _)
bfs_neighbours(neighbours, path, q, discovered) ==
    IF neighbours = <<>> THEN [q |-> q, discovered |-> discovered]
    ELSE IF Head(neighbours) \in discovered
         THEN bfs_neighbours(Tail(neighbours), path, q, discovered)
         ELSE bfs_neighbours(Tail(neighbours), path,
                             Append(q, Append(path, Head(neighbours))),
                             discovered \cup {Head(neighbours)})

RECURSIVE bfs_loop(_, _, _, _)
bfs_loop(newGraph, q, discovered, endAtom) ==
    IF q = <<>> THEN NoPath
    ELSE LET path == Head(q)
             node == Last(path)
         IN  IF node = endAtom THEN path
             ELSE LET r == bfs_neighbours(newGraph[node], path, Tail(q), discovered)
                  IN  bfs_loop(newGraph, r.q, r.discovered, endAtom)

\* bfs(graph, startAtom, endAtom, breakLink): the first path found breadth
\* first, NoPath when there is none
bfs(graph, startAtom, endAtom, breakLink) ==
    LET newGraph == IF breakLink
                    THEN [graph EXCEPT ![startAtom] = RemoveAt(@, IndexOf(@, endAtom))]
                    ELSE graph
    IN  bfs_loop(newGraph, <<(<<startAtom>>)>>, {startAtom}, endAtom)

moleculeGraphOf(atomObjectDict) ==
    [a \in DOMAIN atomObjectDict |-> atomObjectDict[a].firstNeighbourIDs]

\* the loop of is_cyclic over the start neighbours of one bonding atom:
\* cyclicPath keeps the value of the last search made
RECURSIVE cyclic_search(_, _, _, _)
cyclic_search(graph, startNeighbours, bondingAtom, cyclicPath) ==
    IF startNeighbours = <<>> THEN cyclicPath
    ELSE LET found == bfs(graph, Head(startNeighbours), bondingAtom, TRUE)
         IN  IF found # NoPath THEN found
             ELSE cyclic_search(graph, Tail(startNeighbours), bondingAtom, found)

\* is_cyclic over the bonding atoms in order; cyclicPath is one local variable
\* for all of them, unbound until the first search
RECURSIVE is_cyclic_loop(_, _, _, _, _)
is_cyclic_loop(atomObjectDict, bondingAtoms, i, cyclicPath, preservedAtomIDs) ==
    IF i > Len(bondingAtoms) THEN [crash |-> FALSE, preserved |-> preservedAtomIDs]
    ELSE LET bondingAtom == bondingAtoms[i]
             path == cyclic_search(moleculeGraphOf(atomObjectDict),
                                   atomObjectDict[bondingAtom].firstNeighbourIDs,
                                   bondingAtom, cyclicPath)
             preservedIDsSet ==
                 Range(path) \cup UNION {Range(atomObjectDict[a].firstNeighbourIDs) : a \in Range(path)}
         IN  IF path = Unbound THEN [crash |-> TRUE, preserved |-> preservedAtomIDs]
             ELSE is_cyclic_loop(atomObjectDict, bondingAtoms, i + 1, path,
                     [b \in DOMAIN preservedAtomIDs \cup {bondingAtom} |->
                         IF b = bondingAtom
                         THEN (IF path # NoPath THEN preservedIDsSet ELSE NoneSet)
                         ELSE preservedAtomIDs[b]])

is_cyclic(atomObjectDict, bondingAtoms) ==
    is_cyclic_loop(atomObjectDict, bondingAtoms, 1, Unbound, <<>>)

\* find_mapped_pair: the post id of the first pair with this pre id, or None
find_mapped_pair(preAtom, mappedIDs) ==
    LET i == IndexOf(Column(mappedIDs, 1), preAtom)
    IN  IF i = 0 THEN None ELSE mappedIDs[i][2]

\* is_ring_opening: the anchors that are cyclic before and not after
RingOpeningAnchors(prePreservedAtomIDs, postPreservedAtomIDs, mappedIDs, bondingAtoms) ==
    {b \in Range(bondingAtoms) :
        /\ prePreservedAtomIDs[b] # NoneSet
        /\ postPreservedAtomIDs[find_mapped_pair(b, mappedIDs)] = NoneSet}

is_ring_opening(prePreservedAtomIDs, postPreservedAtomIDs, mappedIDs, bondingAtoms) ==
    LET open == RingOpeningAnchors(prePreservedAtomIDs, postPreservedAtomIDs, mappedIDs, bondingAtoms)
        preCyclicAtomsSet == open \cup UNION {prePreservedAtomIDs[b] : b \in open}
    IN  [pre |-> preCyclicAtomsSet,
         post |-> {find_mapped_pair(b, mappedIDs) : b \in open}
                  \cup {find_mapped_pair(a, mappedIDs) :
                            a \in UNION {prePreservedAtomIDs[b] : b \in open}}]

\* a retention that stops at the second neighbours of the anchors
keep_two_shells(atomObjectDict, bondingAtoms, partialAtomSet) ==
    partialAtomSet \cup Range(bondingAtoms)
        \cup UNION {Range(atomObjectDict[b].firstNeighbourIDs)
                    \cup Range(atomObjectDict[b].secondNeighbourIDs) : b \in Range(bondingAtoms)}

\* keep_all_neighbours
keep_all_neighbours(atomObjectDict, bondingAtoms, partialAtomSet) ==
    partialAtomSet \cup Range(bondingAtoms)
        \cup UNION {Range(atomObjectDict[b].firstNeighbourIDs)
                    \cup Range(atomObjectDict[b].secondNeighbourIDs)
                    \cup Range(atomObjectDict[b].thirdNeighbourIDs) : b \in Range(bondingAtoms)}

\* find_edge_atoms: the non-hydrogen atoms of the set with a first neighbour
\* outside it, in the iteration order of the set; NoneList when there are none
find_edge_atoms(atomObjectDict, partialAtomSet, order) ==
    LET edgeAtoms ==
            SelectSeq(SetToList(partialAtomSet, order),
                      LAMBDA a : /\ atomObjectDict[a].element # "H"
                                 /\ \E n \in Range(atomObjectDict[a].firstNeighbourIDs) :
                                        n \notin partialAtomSet)
    IN  IF Len(edgeAtoms) > 0 THEN edgeAtoms ELSE NoneList

\* mappedIDDict = {pair[0]: pair[1]}: the last pair of a pre id wins
mappedIDDictOf(mappedIDs) ==
    [a \in Range(Column(mappedIDs, 1)) |->
        mappedIDs[Max(IndicesOf(Column(mappedIDs, 1), a))][2]]

\* compare_atom_type: "crash" (KeyError) for an atom without a pair or with a
\* pair that is no post atom, else whether the kinds differ
compare_atom_type(preAtom, mappedIDDict, preDict, postDict) ==
    IF preAtom \notin DOMAIN mappedIDDict \/ mappedIDDict[preAtom] \notin DOMAIN postDict
    THEN "crash"
    ELSE IF preDict[preAtom].atomType # postDict[mappedIDDict[preAtom]].atomType
         THEN "differ" ELSE "same"

\* a loop of verify_edge_atoms over one shell, stopping at the first mismatch
RECURSIVE shell_scan(_, _, _, _)
shell_scan(ids, mappedIDDict, preDict, postDict) ==
    IF ids = <<>> THEN "same"
    ELSE LET c == compare_atom_type(Head(ids), mappedIDDict, preDict, postDict)
         IN  IF c = "same" THEN shell_scan(Tail(ids), mappedIDDict, preDict, postDict)
             ELSE c

\* the extension distance of one edge atom: 3, 2, 1, 0 for none, -1 for a crash
extendDistance(edgeAtom, mappedIDDict, preDict, postDict) ==
    LET self == compare_atom_type(edgeAtom, mappedIDDict, preDict, postDict)
        first == shell_scan(preDict[edgeAtom].firstNeighbourIDs, mappedIDDict, preDict, postDict)
        second == shell_scan(preDict[edgeAtom].secondNeighbourIDs, mappedIDDict, preDict, postDict)
    IN  IF self = "crash" THEN -1
        ELSE IF self = "differ" THEN 3
        ELSE IF first = "crash" THEN -1
        ELSE IF first = "differ" THEN 2
        ELSE IF second = "crash" THEN -1
        ELSE IF second = "differ" THEN 1
        ELSE 0

\* verify_edge_atoms: extendDistanceDict as the list of (edge atom, distance)
\* in the order of preEdgeAtoms; crash when a lookup fails
verify_edge_atoms(edgeAtoms, mappedIDs, preDict, postDict) ==
    IF edgeAtoms = NoneList THEN [crash |-> FALSE, dict |-> <<>>]
    ELSE LET mappedIDDict == mappedIDDictOf(mappedIDs)
             dist == [i \in 1..Len(edgeAtoms) |->
                         extendDistance(edgeAtoms[i], mappedIDDict, preDict, postDict)]
             extended == {i \in 1..Len(edgeAtoms) : dist[i] > 0}
         IN  IF \E i \in 1..Len(edgeAtoms) : dist[i] = -1
             THEN [crash |-> TRUE, dict |-> <<>>]
             ELSE [crash |-> FALSE,
                   dict |-> [k \in 1..Cardinality(extended) |->
                               LET i == CHOOSE j \in extended :
                                            Cardinality({x \in extended : x < j}) = k - 1
                               IN  <<edgeAtoms[i], dist[i]>>]]


\* one shell list per extension distance (extend_edge_atoms): the first
\* neighbours always, the second for distance 2, the third for distance 3
ExtensionOf(atomObjectDict, a, extendDist) ==
    atomObjectDict[a].firstNeighbourIDs
      \o (IF extendDist = 2 THEN atomObjectDict[a].secondNeighbourIDs ELSE <<>>)
      \o (IF extendDist = 3 THEN atomObjectDict[a].thirdNeighbourIDs ELSE <<>>)

RECURSIVE ConcatAll(_)
ConcatAll(ss) == IF ss = <<>> THEN <<>> ELSE Head(ss) \o ConcatAll(Tail(ss))

\* the loop of extend_edge_atoms that extends mappedIDList: a pre atom
\* without a pair gets the pair [preAtom, None]
RECURSIVE extend_mapped(_, _)
extend_mapped(additionalPreAtoms, mappedIDs) ==
    IF additionalPreAtoms = <<>> THEN mappedIDs
    ELSE LET preAtom == Head(additionalPreAtoms)
             pair == <<preAtom, find_mapped_pair(preAtom, mappedIDs)>>
         IN  extend_mapped(Tail(additionalPreAtoms),
                           IF pair \notin Range(mappedIDs) THEN Append(mappedIDs, pair)
                           ELSE mappedIDs)

\* an extension that returns the added shells in place of the enlarged sets
replace_by_extension(extendEdgeDict, mappedIDs, preDict, postDict, preSet, postSet) ==
    LET postEdge(i) == find_mapped_pair(extendEdgeDict[i][1], mappedIDs)
        additionalPreAtoms ==
            ConcatAll([i \in 1..Len(extendEdgeDict) |->
                          ExtensionOf(preDict, extendEdgeDict[i][1], extendEdgeDict[i][2])])
        additionalPostAtoms ==
            ConcatAll([i \in 1..Len(extendEdgeDict) |->
                          ExtensionOf(postDict, postEdge(i), extendEdgeDict[i][2])])
    IN  IF \E i \in 1..Len(extendEdgeDict) : postEdge(i) \notin DOMAIN postDict
        THEN [crash |-> TRUE]
        ELSE [crash |-> FALSE,
              mappedIDList |-> extend_mapped(additionalPreAtoms, mappedIDs),
              pre |-> Range(additionalPreAtoms),
              post |-> Range(additionalPostAtoms)]

\* extend_edge_atoms; crash when an edge atom's pair is no post atom
extend_edge_atoms(extendEdgeDict, mappedIDs, preDict, postDict, preSet, postSet) ==
    LET postEdge(i) == find_mapped_pair(extendEdgeDict[i][1], mappedIDs)
        additionalPreAtoms ==
            ConcatAll([i \in 1..Len(extendEdgeDict) |->
                          ExtensionOf(preDict, extendEdgeDict[i][1], extendEdgeDict[i][2])])
        additionalPostAtoms ==
            ConcatAll([i \in 1..Len(extendEdgeDict) |->
                          ExtensionOf(postDict, postEdge(i), extendEdgeDict[i][2])])
    IN  IF \E i \in 1..Len(extendEdgeDict) : postEdge(i) \notin DOMAIN postDict
        THEN [crash |-> TRUE]
        ELSE [crash |-> FALSE,
              mappedIDList |-> extend_mapped(additionalPreAtoms, mappedIDs),
              pre |-> preSet \cup Range(additionalPreAtoms),
              post |-> postSet \cup Range(additionalPostAtoms)]

\* get_byproducts: the post atoms without a path to postBondingAtoms[0],
\* NoneList when every atom has one
get_byproducts(postDict, bondingAtoms) ==
    LET byproducts ==
            SelectSeq(KeysOf(postDict),
                      LAMBDA a : bfs(moleculeGraphOf(postDict), a, bondingAtoms[1], FALSE) = NoPath)
    IN  IF Len(byproducts) > 0 THEN byproducts ELSE NoneList

\* natsorted(mappedIDList, key=lambda x: x[0]): stable, by pre id
RECURSIVE InsertPair(_, _)
InsertPair(s, pair) ==
    IF s = <<>> THEN <<pair>>
    ELSE IF pair[1] < Head(s)[1] THEN <<pair>> \o s
    ELSE <<Head(s)>> \o InsertPair(Tail(s), pair)

RECURSIVE natsorted(_)
natsorted(pairs) ==
    IF pairs = <<>> THEN <<>>
    ELSE InsertPair(natsorted(SubSeq(pairs, 1, Len(pairs) - 1)), Last(pairs))

\* a partial map that keeps every pair of the mapping
keep_every_pair(mappedIDs, preSet, postSet) == mappedIDs

\* the filter of create_partial_map
partialMappedIDListOf(mappedIDs, preSet, postSet) ==
    SelectSeq(mappedIDs, LAMBDA pair : pair[1] \in preSet /\ pair[2] \in postSet)

\* the pairs create_partial_map warns about: exactly one id is retained
OneSided(mappedIDs, preSet, postSet) ==
    {i \in 1..Len(mappedIDs) : (mappedIDs[i][1] \in preSet) # (mappedIDs[i][2] \in postSet)}

\* a renumbering dict of create_partial_map: the position of a pair in the
\* filtered list is the new id of its atom; a later pair overwrites
renumberedAtomDictOf(partialList, side) ==
    [a \in Range(Column(partialList, side)) |-> Max(IndicesOf(Column(partialList, side), a))]

renumberedMappedIDListOf(partialList) == [i \in 1..Len(partialList) |-> <<i, i>>]

\* renumber(inputList, renumberedAtomDict); KeyError when an id has no entry
renumberFails(inputList, renumberedAtomDict) ==
    inputList # NoneList /\ \E i \in 1..Len(inputList) : inputList[i] \notin DOMAIN renumberedAtomDict

renumber(inputList, renumberedAtomDict) ==
    IF inputList = NoneList THEN NoneList
    ELSE [i \in 1..Len(inputList) |-> renumberedAtomDict[inputList[i]]]

\* lines 135-140: the create atoms get the ids after the highest new post id
withCreateAtoms(postDictR, create) ==
    LET IDCounter == Max(Values(postDictR))
    IN  [a \in DOMAIN postDictR \cup Range(create) |->
            IF a \in Range(create) THEN IDCounter + Max(IndicesOf(create, a))
            ELSE postDictR[a]]

\* refine_data in lammps_to_molecule with validIDSet: every atom row of the
\* data file whose id is in the set is renumbered; KeyError without an entry
refineFails(fileAtoms, validIDSet, renumberedAtomDict) ==
    \E a \in fileAtoms \cap validIDSet : a \notin DOMAIN renumberedAtomDict

\* the lines save_text_file writes for the rows of output_map, blank lines
\* left out: the header comment, a count line, a section keyword, an atom id,
\* a pair of ids joined by a tab
HeaderLine == [kind |-> "header", text |-> "", a |-> None, b |-> None]
CountLine(n, what) == [kind |-> "count", text |-> what, a |-> n, b |-> None]
SectionLine(name) == [kind |-> "section", text |-> name, a |-> None, b |-> None]
IDLine(atom) == [kind |-> "id", text |-> "", a |-> atom, b |-> None]
PairLine(atomPair) == [kind |-> "pair", text |-> "", a |-> atomPair[1], b |-> atomPair[2]]

\* a count row for every list, None or not
count_always(what, ids) == <<CountLine(Len(ids), what)>>

\* deleteIDCount, edgeIDCount, createIDCount: empty for a list that is None
count_lines(what, ids) ==
    IF ids = NoneList THEN <<>> ELSE <<CountLine(Len(ids), what)>>

\* deleteAtoms, edgeAtoms, outputCreateAtoms: empty for a list that is None
section_lines(name, ids) ==
    IF ids = NoneList THEN <<>>
    ELSE <<SectionLine(name)>> \o [i \in 1..Len(ids) |-> IDLine(ids[i])]

\* totalOutput of output_map, in the order of line 207
totalOutput(mappedIDs, bondingAtoms, edgeAtoms, deleteAtomsList, create) ==
    <<HeaderLine, CountLine(Len(mappedIDs), "equivalences")>>
      \o count_lines("deleteIDs", deleteAtomsList)
      \o count_lines("edgeIDs", edgeAtoms)
      \o count_lines("createIDs", create)
      \o <<SectionLine("BondingIDs")>> \o [i \in 1..Len(bondingAtoms) |-> IDLine(bondingAtoms[i])]
      \o section_lines("DeleteIDs", deleteAtomsList)
      \o section_lines("EdgeIDs", edgeAtoms)
      \o section_lines("CreateIDs", create)
      \o <<SectionLine("Equivalences")>> \o [i \in 1..Len(mappedIDs) |-> PairLine(mappedIDs[i])]

\* output_map: the sections of the mapping record and its lines
output_map(mappedIDs, bondingAtoms, edgeAtoms, deleteAtomsList, create) ==
    [equivalences |-> mappedIDs,
     BondingIDs |-> bondingAtoms,
     DeleteIDs |-> deleteAtomsList,
     EdgeIDs |-> edgeAtoms,
     CreateIDs |-> create,
     lines |-> totalOutput(mappedIDs, bondingAtoms, edgeAtoms, deleteAtomsList, create)]

----------------------------------------------------------------------------
(* Inputs: the molecule files and the caller's atom lists.                 *)

NAtoms == 4
MaxEdits == 1
MaxRing == 8
MaxChain == 7
MaxSkeletonEdits == 2
MaxMultiplier == 3

\* the candidate bonds of a molecule of n atoms, in file order
RECURSIVE PairsFrom(_, _, _)
PairsFrom(a, b, n) ==
    IF a >= n THEN <<>>
    ELSE IF b > n THEN PairsFrom(a + 1, a + 2, n)
    ELSE <<(<<a, b>>)>> \o PairsFrom(a, b + 1, n)
AllPairs(n) == PairsFrom(1, 2, n)

InFileOrder(n, S) == SelectSeq(AllPairs(n), LAMBDA b : b \in S)

BondLists(n) == {InFileOrder(n, S) : S \in SUBSET Range(AllPairs(n))}

Degree(bondsList, a) == Len(get_neighbours(bondsList, a))

\* the subsets of at most k elements
RECURSIVE SubsetsUpTo(_, _)
SubsetsUpTo(S, k) ==
    IF k = 0 THEN {{}}
    ELSE SubsetsUpTo(S, k - 1) \cup {E \cup {x} : E \in SubsetsUpTo(S, k - 1), x \in S}

\* the post file: the pre bonds with at most edits bonds formed or broken
PostBondLists(n, preBonds, candidates, edits) ==
    {InFileOrder(n, (Range(preBonds) \ E) \cup (E \ Range(preBonds))) :
        E \in SubsetsUpTo(candidates, edits)}

\* hydrogen has one bond at most and is no anchor
ValidTypes(ty, pb, qb, anchors) ==
    \A a \in DOMAIN ty :
        elementsByType[ty[a]] = "H" =>
            /\ Degree(pb, a) <= 1
            /\ Degree(qb, a) <= 1
            /\ a \notin anchors

\* deleteAtoms of the caller: none, one pair, or two pairs of atoms that are
\* no anchors (pre ids first, post ids second)
DeleteLists(n) ==
    {NoneList} \cup {<<d, e>> : d \in 3..n, e \in 3..n}
               \cup {<<d[1], d[2], e[1], e[2]>> :
                        d \in {x \in (3..n) \X (3..n) : x[1] < x[2]},
                        e \in {x \in (3..n) \X (3..n) : x[1] # x[2]}}

Reaction(pb, qb, pty, qty, da) ==
    [preBonds |-> pb, postBonds |-> qb, preTypes |-> pty, postTypes |-> qty,
     preBondingAtoms |-> <<1, 2>>, postBondingAtoms |-> <<1, 2>>,
     deleteAtoms |-> da, createAtoms |-> NoneList]

\* every molecule pair of NAtoms atoms of carbon and hydrogen
InputsFor(pb, qb) ==
    {Reaction(pb, qb, ty, ty, da) :
        ty \in {t \in [1..NAtoms -> {1, 3}] : ValidTypes(t, pb, qb, {1, 2})},
        da \in DeleteLists(NAtoms)}

SmallInputs ==
    UNION {UNION {InputsFor(pb, qb) :
                    qb \in PostBondLists(NAtoms, pb, Range(AllPairs(NAtoms)), MaxEdits)} :
           pb \in BondLists(NAtoms)}

Carbons(n) == [a \in 1..n |-> 1]

\* anchor 1 on a ring of N carbons (1, 3, .., N+1), anchor 2 bonded to atom
\* N+2; the reaction bonds 1 to 2 and keeps the ring or opens it at anchor 1
RingBonds(N) ==
    {<<1, 3>>, <<1, N + 1>>, <<2, N + 2>>} \cup {<<a, a + 1>> : a \in 3..N}

RingInputs ==
    {Reaction(InFileOrder(N + 2, RingBonds(N)),
              InFileOrder(N + 2, (RingBonds(N) \cup {<<1, 2>>}) \ broken[N]),
              Carbons(N + 2), Carbons(N + 2), NoneList) :
        N \in 3..MaxRing,
        broken \in {[M \in 3..MaxRing |-> {}], [M \in 3..MaxRing |-> {<<1, M + 1>>}]}}

\* anchor 1 at the head of a chain of L carbons (1, 3, .., L+1), anchor 2
\* bonded to atom L+2; the reaction bonds 1 to 2 and changes the kind of at
\* most one chain atom
ChainBonds(L) == {<<1, 3>>, <<2, L + 2>>} \cup {<<a, a + 1>> : a \in 3..L}

ChainInputsOf(L) ==
    {Reaction(InFileOrder(L + 2, ChainBonds(L)),
              InFileOrder(L + 2, ChainBonds(L) \cup {<<1, 2>>}),
              Carbons(L + 2), [a \in 1..(L + 2) |-> IF a = k THEN 2 ELSE 1], NoneList) :
        k \in {0} \cup 3..(L + 1)}

ChainInputs == UNION {ChainInputsOf(L) : L \in 2..MaxChain}

\* two carbon skeletons; the reaction bonds 1 to 2 and forms or breaks at most
\* MaxSkeletonEdits other bonds
Skeletons ==
    {<<(<<1, 4>>), <<1, 7>>, <<2, 3>>, <<3, 5>>, <<4, 6>>>>,
     <<(<<1, 3>>), <<3, 4>>, <<4, 5>>, <<4, 6>>, <<5, 8>>, <<6, 7>>>>}

AtomsOf(bondsList) == Max(UNION {{b[1], b[2]} : b \in Range(bondsList)})

SkeletonInputsOf(pb) ==
    {Reaction(pb, InFileOrder(AtomsOf(pb), Range(qb) \cup {<<1, 2>>}),
              Carbons(AtomsOf(pb)), Carbons(AtomsOf(pb)), NoneList) :
        qb \in PostBondLists(AtomsOf(pb), pb, Range(AllPairs(AtomsOf(pb))) \ {<<1, 2>>},
                             MaxSkeletonEdits)}

SkeletonInputs == UNION {SkeletonInputsOf(pb) : pb \in Skeletons}

\* two carbon branches at anchor 1 that differ in a hydrogen two bonds away;
\* the post file numbers the two hydrogens the other way round, and in the
\* second reaction also the two branches
SymmetricPre == <<(<<1, 3>>), <<1, 4>>, <<2, 8>>, <<3, 5>>, <<4, 6>>, <<5, 7>>>>

SymmetricPosts ==
    {<<(<<1, 2>>), <<1, 3>>, <<1, 4>>, <<2, 7>>, <<3, 5>>, <<4, 6>>, <<5, 8>>>>,
     <<(<<1, 2>>), <<1, 3>>, <<1, 4>>, <<2, 7>>, <<3, 5>>, <<4, 6>>, <<6, 8>>>>}

SymmetricInputs ==
    {Reaction(SymmetricPre, qb,
              [a \in 1..8 |-> IF a \in {7, 8} THEN 3 ELSE 1],
              [a \in 1..8 |-> IF a \in {7, 8} THEN 3 ELSE 1], NoneList) :
        qb \in SymmetricPosts}

LargeInputs == RingInputs \cup ChainInputs \cup SkeletonInputs \cup SymmetricInputs

\* reactions with create atoms: atoms of the post file that the pre file does
\* not have. The post id of pre atom a is the a-th id that is no create atom.
PostIDOf(a, create) ==
    CHOOSE q \in 1..(a + Len(create)) :
        /\ q \notin Range(create)
        /\ Cardinality({x \in 1..q : x \notin Range(create)}) = a

\* createAtoms of the caller with the bonds of the create atoms in the post
\* file: one atom (unbonded, or bonded to an anchor or to another atom, with
\* the highest id or an id in the middle) or two atoms in either order
CreateChoices ==
    {<<(<<5>>), {}>>, <<(<<5>>), {<<1, 5>>}>>, <<(<<5>>), {<<2, 5>>}>>,
     <<(<<5>>), {<<3, 5>>}>>, <<(<<3>>), {<<1, 3>>}>>,
     <<(<<5, 6>>), {<<2, 5>>, <<5, 6>>}>>, <<(<<6, 5>>), {<<1, 6>>}>>}

CreateReaction(pb, n, create, createBonds, createKind) ==
    [preBonds |-> pb,
     postBonds |-> InFileOrder(n + Len(create),
                       {<<PostIDOf(b[1], create), PostIDOf(b[2], create)>> : b \in Range(pb)}
                         \cup {<<1, 2>>} \cup createBonds),
     preTypes |-> Carbons(n),
     postTypes |-> [a \in 1..(n + Len(create)) |->
                      IF a \in Range(create) THEN createKind ELSE 1],
     preBondingAtoms |-> <<1, 2>>, postBondingAtoms |-> <<1, 2>>,
     deleteAtoms |-> NoneList, createAtoms |-> create]

\* every carbon molecule of NAtoms atoms whose anchors are not bonded, with
\* every choice of create atoms of carbon or hydrogen; and the chains with a
\* create atom bonded to anchor 2
CreateInputs ==
    {r \in {CreateReaction(pb, NAtoms, c[1], c[2], k) :
                pb \in {l \in BondLists(NAtoms) : <<1, 2>> \notin Range(l)},
                c \in CreateChoices, k \in {1, 3}} :
        ValidTypes(r.postTypes, r.postBonds, r.postBonds, {1, 2})}
      \cup {CreateReaction(InFileOrder(L + 2, ChainBonds(L)), L + 2, <<L + 3>>,
                           {<<2, L + 3>>}, 1) : L \in (MaxChain - 1)..MaxChain}

\* anchor 1 with three neighbours of carbon or hydrogen; the post file keeps
\* any of the three bonds and bonds the anchors
StarBonds == <<(<<1, 3>>), <<1, 4>>, <<1, 5>>>>

StarInputs ==
    {Reaction(StarBonds, InFileOrder(5, S \cup {<<1, 2>>}), ty, ty, NoneList) :
        S \in SUBSET Range(StarBonds),
        ty \in {[a \in 1..5 |-> IF a \in H THEN 3 ELSE 1] : H \in SUBSET {3, 4, 5}}}

\* anchor 1 on a ring of 6 (1, 3, .., 7) with nitrogen 3 next to it and a
\* pendant carbon 9 on ring atom 5, four bonds from the anchor; anchor 2 is
\* bonded to atom 8; the reaction bonds 1 to 2 and keeps the ring or opens it
\* at anchor 1
PendantRingBonds == RingBonds(6) \cup {<<5, 9>>}

PendantRingInputs ==
    {Reaction(InFileOrder(9, PendantRingBonds),
              InFileOrder(9, (PendantRingBonds \cup {<<1, 2>>}) \ broken),
              [a \in 1..9 |-> IF a = 3 THEN 4 ELSE 1],
              [a \in 1..9 |-> IF a = 3 THEN 4 ELSE 1], NoneList) :
        broken \in {{}, {<<1, 7>>}}}

Inputs ==
    SmallInputs \cup LargeInputs \cup CreateInputs \cup StarInputs \cup PendantRingInputs

MaxAtomID == Max({NAtoms + 2, MaxRing + 2, MaxChain + 3, 8})

\* the iteration orders of a set of ids: the rank of an id is its hash
\* modulo the table size, and the hash changes from process to process
HashModulus == MaxAtomID + 3

HashOrders ==
    {[a \in 0..MaxAtomID |-> (a * m) % HashModulus] : m \in 1..MaxMultiplier}

----------------------------------------------------------------------------
(* The mapping pass: map_from_path.                                        *)

inputVars == <<bonds, types, hashOrder, args>>

listVars == <<preBondingAtoms, postBondingAtoms, preDeleteAtoms, postDeleteAtoms,
              createAtoms>>

mapVars == <<preAtomObjectDict, postAtomObjectDict, mappedIDList,
             missingPreAtomList, missingPostAtomList, queue,
             timeoutCounter, inference, missingPreAtomCount,
             missingPreAtomsBefore>>

reducerVars == <<prePartialAtomsSet, postPartialAtomsSet, preEdgeAtoms,
                 partialMappedIDList, preRenumberedAtomDict, postRenumberedAtomDict,
                 outputData>>

rerunVars == <<run, firstResult>>

poolVars == <<cwd, thread>>

resolverVars == <<symmetryCall>>

vars == <<inputVars, listVars, mapVars, reducerVars, pc, rerunVars, poolVars,
          resolverVars>>

\* compare_symmetric_atoms not called
NoCall ==
    [postNeighbourAtomObjectList |-> <<>>, preNeighbourAtom |-> None,
     outputType |-> "", allowInference |-> FALSE, returned |-> None]

IdentityOrder == [a \in 0..MaxAtomID |-> a]

\* map_processor lines 40-48 and map_from_path lines 107-122
InitWith(inp, order) ==
    /\ bonds = <<inp.preBonds, inp.postBonds>>
    /\ types = <<inp.preTypes, inp.postTypes>>
    /\ hashOrder = order
    /\ args = [preBondingAtoms |-> inp.preBondingAtoms,
               postBondingAtoms |-> inp.postBondingAtoms,
               deleteAtoms |-> inp.deleteAtoms,
               createAtoms |-> inp.createAtoms]
    /\ preBondingAtoms = inp.preBondingAtoms
    /\ postBondingAtoms = inp.postBondingAtoms
    /\ preDeleteAtoms = IF inp.deleteAtoms = NoneList THEN NoneList
                        ELSE SubSeq(inp.deleteAtoms, 1, Len(inp.deleteAtoms) \div 2)
    /\ postDeleteAtoms = IF inp.deleteAtoms = NoneList THEN NoneList
                         ELSE SubSeq(inp.deleteAtoms, Len(inp.deleteAtoms) \div 2 + 1,
                                     Len(inp.deleteAtoms))
    /\ createAtoms = inp.createAtoms
    /\ preAtomObjectDict = build_atom_objects(inp.preBonds, inp.preTypes,
                                              inp.preBondingAtoms, <<>>, order)
    /\ postAtomObjectDict = build_atom_objects(inp.postBonds, inp.postTypes,
                                               inp.postBondingAtoms, inp.createAtoms, order)
    /\ mappedIDList = <<>>
    /\ missingPreAtomList = <<>>
    /\ missingPostAtomList = <<>>
    /\ queue = <<>>
    /\ timeoutCounter = 1
    /\ inference = FALSE
    /\ missingPreAtomCount = 0
    /\ missingPreAtomsBefore = 0
    /\ prePartialAtomsSet = {}
    /\ postPartialAtomsSet = {}
    /\ preEdgeAtoms = NoneList
    /\ partialMappedIDList = <<>>
    /\ preRenumberedAtomDict = <<>>
    /\ postRenumberedAtomDict = <<>>
    /\ outputData = <<>>
    /\ symmetryCall = NoCall
    /\ pc = "queue_bond_atoms"

\* one computation in a process of its own
Alone ==
    /\ run = 1
    /\ firstResult = <<>>
    /\ cwd = "home"
    /\ thread = <<>>

Init == \E inp \in Inputs : InitWith(inp, IdentityOrder) /\ Alone

\* queue_bond_atoms: the anchor pairs seed the queue and the mapping
queue_bond_atoms ==
    /\ pc = "queue_bond_atoms"
    /\ LET pairs == [i \in 1..Len(preBondingAtoms) |->
                        <<preBondingAtoms[i], postBondingAtoms[i]>>]
       IN  /\ queue' = queue \o pairs
           /\ mappedIDList' = mappedIDList \o pairs
    /\ pc' = "map_delete_atoms"
    /\ UNCHANGED <<inputVars, resolverVars, rerunVars, poolVars, listVars, reducerVars,
                   preAtomObjectDict, postAtomObjectDict, missingPreAtomList,
                   missingPostAtomList, timeoutCounter, inference,
                   missingPreAtomCount,
                   missingPreAtomsBefore>>

\* map_delete_atoms: the declared deletion pairs go straight into the mapping
map_delete_atoms ==
    /\ pc = "map_delete_atoms"
    /\ mappedIDList' =
          IF preDeleteAtoms # NoneList
          THEN mappedIDList \o [i \in 1..Len(preDeleteAtoms) |->
                                    <<preDeleteAtoms[i], postDeleteAtoms[i]>>]
          ELSE mappedIDList
    /\ pc' = "run_queue"
    /\ UNCHANGED <<inputVars, resolverVars, rerunVars, poolVars, listVars, reducerVars,
                   preAtomObjectDict, postAtomObjectDict, queue,
                   missingPreAtomList, missingPostAtomList, timeoutCounter,
                   inference, missingPreAtomCount,
                   missingPreAtomsBefore>>

\* one iteration of the while loop of run_queue
run_queue ==
    /\ pc \in {"run_queue", "round_queue"}
    /\ queue # <<>>
    /\ LET currentAtoms == Head(queue)
           preChecked == check_mapped(preAtomObjectDict, currentAtoms[1], mappedIDList, 1)
           postChecked == check_mapped(postAtomObjectDict, currentAtoms[2], mappedIDList, 2)
           r == map_elements(currentAtoms[1], currentAtoms[2], preChecked, postChecked)
       IN  /\ preAtomObjectDict' = preChecked
           /\ postAtomObjectDict' =
                 [postChecked EXCEPT ![currentAtoms[2]].mappedNeighbourIDs = r.postIDs]
           /\ queue' = Tail(queue) \o r.queueAtoms
           /\ missingPreAtomList' = missingPreAtomList \o r.missingPreAtoms
           /\ missingPostAtomList' = missingPostAtomList \o r.missingPostAtoms
           /\ mappedIDList' = mappedIDList \o r.mapList
    /\ UNCHANGED <<inputVars, resolverVars, rerunVars, poolVars, listVars, reducerVars,
                   timeoutCounter, inference, missingPreAtomCount,
                   missingPreAtomsBefore, pc>>

\* map_from_path line 130, after the first run_queue returned
first_update ==
    /\ pc = "run_queue"
    /\ queue = <<>>
    /\ missingPreAtomList' = update_missing_list(missingPreAtomList, mappedIDList, 1)
    /\ pc' = "loop"
    /\ UNCHANGED <<inputVars, resolverVars, rerunVars, poolVars, listVars, reducerVars,
                   preAtomObjectDict, postAtomObjectDict, mappedIDList,
                   missingPostAtomList, queue, timeoutCounter, inference,
                   missingPreAtomCount,
                   missingPreAtomsBefore>>

\* a reconciliation round up to line 151 (the round's run_queue follows)
reconcile_round ==
    /\ pc = "loop"
    /\ Len(missingPreAtomList) > 0 /\ timeoutCounter < 11
    /\ LET pre1 == update_missing_list(missingPreAtomList, mappedIDList, 1)
           post1 == update_missing_list(missingPostAtomList, mappedIDList, 2)
           mappedPostAtoms == Range(Column(mappedIDList, 2))
           totalPostAtomList == KeysOf(postAtomObjectDict)
           unfoundMissingPostAtoms ==
               SelectSeq(totalPostAtomList,
                         LAMBDA a : a \notin mappedPostAtoms /\ a \notin Range(post1))
           post2 == post1 \o unfoundMissingPostAtoms
           r == map_missing_atoms(1, pre1, post2, mappedIDList, queue,
                                  preAtomObjectDict, postAtomObjectDict, inference)
       IN  /\ missingPreAtomCount' = Len(post1)
           /\ missingPreAtomsBefore' = Len(pre1)
           /\ mappedIDList' = r.mapList
           /\ queue' = r.queue
           /\ missingPreAtomList' = update_missing_list(pre1, r.mapList, 1)
           /\ missingPostAtomList' = update_missing_list(post2, r.mapList, 2)
    /\ pc' = "round_queue"
    /\ UNCHANGED <<inputVars, resolverVars, rerunVars, poolVars, listVars, reducerVars,
                   preAtomObjectDict, postAtomObjectDict, timeoutCounter,
                   inference>>

\* the end of a round, lines 154-161: inference is switched on when the
\* count taken at line 139 equals the number of missing pre atoms
round_end ==
    /\ pc = "round_queue"
    /\ queue = <<>>
    /\ inference' = (missingPreAtomCount = Len(missingPreAtomList))
    /\ timeoutCounter' = timeoutCounter + 1
    /\ pc' = "loop"
    /\ UNCHANGED <<inputVars, resolverVars, rerunVars, poolVars, listVars, reducerVars,
                   preAtomObjectDict, postAtomObjectDict, mappedIDList,
                   missingPreAtomList, missingPostAtomList, queue,
                   missingPreAtomCount,
                   missingPreAtomsBefore>>

\* a loop end that returns the mapping although pre atoms are missing
timeout_return ==
    /\ pc = "loop"
    /\ ~(Len(missingPreAtomList) > 0 /\ timeoutCounter < 11)
    /\ Len(missingPreAtomList) > 0
    /\ pc' = "mapped"
    /\ UNCHANGED <<inputVars, resolverVars, rerunVars, poolVars, listVars, reducerVars,
                   preAtomObjectDict, postAtomObjectDict, mappedIDList,
                   missingPreAtomList, missingPostAtomList, queue,
                   timeoutCounter, inference, missingPreAtomCount,
                   missingPreAtomsBefore>>

\* lines 163-165: missing pre atoms remain when the loop ends, sys.exit()
timeout_exit ==
    /\ pc = "loop"
    /\ ~(Len(missingPreAtomList) > 0 /\ timeoutCounter < 11)
    /\ Len(missingPreAtomList) > 0
    /\ pc' = "exit"
    /\ UNCHANGED <<inputVars, resolverVars, rerunVars, poolVars, listVars, reducerVars,
                   preAtomObjectDict, postAtomObjectDict, mappedIDList,
                   missingPreAtomList, missingPostAtomList, queue,
                   timeoutCounter, inference, missingPreAtomCount,
                   missingPreAtomsBefore>>

\* line 167: return mappedIDList
map_from_path_return ==
    /\ pc = "loop"
    /\ Len(missingPreAtomList) = 0
    /\ pc' = "mapped"
    /\ UNCHANGED <<inputVars, resolverVars, rerunVars, poolVars, listVars, reducerVars,
                   preAtomObjectDict, postAtomObjectDict, mappedIDList,
                   missingPreAtomList, missingPostAtomList, queue,
                   timeoutCounter, inference, missingPreAtomCount,
                   missingPreAtomsBefore>>

----------------------------------------------------------------------------
(* The template reducer: map_processor after the mapping pass.             *)

\* lines 62-76: the atom objects are rebuilt from the molecule files, then
\* is_cyclic on both sides and is_ring_opening
is_ring_opening_stage ==
    /\ pc = "mapped"
    /\ LET preDict == build_atom_objects(bonds[1], types[1], preBondingAtoms, <<>>, hashOrder)
           postDict == build_atom_objects(bonds[2], types[2], postBondingAtoms,
                                          createAtoms, hashOrder)
           prePreservedAtomIDs == is_cyclic(preDict, preBondingAtoms)
           postPreservedAtomIDs == is_cyclic(postDict, postBondingAtoms)
           r == is_ring_opening(prePreservedAtomIDs.preserved, postPreservedAtomIDs.preserved,
                                mappedIDList, preBondingAtoms)
       IN  /\ preAtomObjectDict' = preDict
           /\ postAtomObjectDict' = postDict
           /\ IF prePreservedAtomIDs.crash \/ postPreservedAtomIDs.crash
              THEN /\ pc' = "crash"
                   /\ UNCHANGED <<prePartialAtomsSet, postPartialAtomsSet>>
              ELSE /\ pc' = "keep_all_neighbours"
                   /\ prePartialAtomsSet' = r.pre
                   /\ postPartialAtomsSet' = r.post
    /\ UNCHANGED <<inputVars, resolverVars, rerunVars, poolVars, listVars, mappedIDList,
                   missingPreAtomList, missingPostAtomList, queue,
                   timeoutCounter, inference, missingPreAtomCount,
                   missingPreAtomsBefore,
                   preEdgeAtoms, partialMappedIDList, preRenumberedAtomDict,
                   postRenumberedAtomDict, outputData>>

\* lines 79-89: three shells around every anchor, the deletion atoms and the
\* create atoms are retained
keep_all_neighbours_stage ==
    /\ pc = "keep_all_neighbours"
    /\ prePartialAtomsSet' =
          keep_all_neighbours(preAtomObjectDict, preBondingAtoms, prePartialAtomsSet)
            \cup (IF preDeleteAtoms # NoneList THEN Range(preDeleteAtoms) ELSE {})
    /\ postPartialAtomsSet' =
          keep_all_neighbours(postAtomObjectDict, postBondingAtoms, postPartialAtomsSet)
            \cup (IF preDeleteAtoms # NoneList THEN Range(postDeleteAtoms) ELSE {})
            \cup (IF createAtoms # NoneList THEN Range(createAtoms) ELSE {})
    /\ pc' = "find_edge_atoms"
    /\ UNCHANGED <<inputVars, resolverVars, rerunVars, poolVars, listVars, mapVars,
                   preEdgeAtoms, partialMappedIDList, preRenumberedAtomDict,
                   postRenumberedAtomDict, outputData>>

\* lines 92-101: find_edge_atoms, verify_edge_atoms, extend_edge_atoms and
\* find_edge_atoms again
edge_stage ==
    /\ pc = "find_edge_atoms"
    /\ LET edge0 == find_edge_atoms(preAtomObjectDict, prePartialAtomsSet, hashOrder)
           preExtendEdgeDict == verify_edge_atoms(edge0, mappedIDList,
                                                  preAtomObjectDict, postAtomObjectDict)
           r == extend_edge_atoms(preExtendEdgeDict.dict, mappedIDList,
                                  preAtomObjectDict, postAtomObjectDict,
                                  prePartialAtomsSet, postPartialAtomsSet)
       IN  IF preExtendEdgeDict.crash \/ r.crash
           THEN /\ pc' = "crash"
                /\ UNCHANGED <<mappedIDList, prePartialAtomsSet, postPartialAtomsSet,
                               preEdgeAtoms>>
           ELSE /\ pc' = "get_byproducts"
                /\ mappedIDList' = r.mappedIDList
                /\ prePartialAtomsSet' = r.pre
                /\ postPartialAtomsSet' = r.post
                /\ preEdgeAtoms' = find_edge_atoms(preAtomObjectDict, r.pre, hashOrder)
    /\ UNCHANGED <<inputVars, resolverVars, rerunVars, poolVars, listVars, preAtomObjectDict,
                   postAtomObjectDict, missingPreAtomList, missingPostAtomList,
                   queue, timeoutCounter, inference, missingPreAtomCount,
                   missingPreAtomsBefore,
                   partialMappedIDList, preRenumberedAtomDict,
                   postRenumberedAtomDict, outputData>>

\* lines 104-110: the byproducts are retained, the mapping is sorted
get_byproducts_stage ==
    /\ pc = "get_byproducts"
    /\ LET postAtomByproducts == get_byproducts(postAtomObjectDict, postBondingAtoms)
       IN  postPartialAtomsSet' =
              IF postAtomByproducts # NoneList
              THEN postPartialAtomsSet \cup Range(postAtomByproducts)
              ELSE postPartialAtomsSet
    /\ mappedIDList' = natsorted(mappedIDList)
    /\ pc' = "create_partial_map"
    /\ UNCHANGED <<inputVars, resolverVars, rerunVars, poolVars, listVars, preAtomObjectDict,
                   postAtomObjectDict, missingPreAtomList, missingPostAtomList,
                   queue, timeoutCounter, inference, missingPreAtomCount,
                   missingPreAtomsBefore,
                   prePartialAtomsSet, preEdgeAtoms, partialMappedIDList,
                   preRenumberedAtomDict, postRenumberedAtomDict, outputData>>

\* line 117 is false: the partial structure is the whole structure
no_truncation ==
    /\ pc = "create_partial_map"
    /\ Cardinality(prePartialAtomsSet) = Cardinality(DOMAIN preAtomObjectDict)
    /\ pc' = "output_map"
    /\ UNCHANGED <<inputVars, resolverVars, rerunVars, poolVars, listVars, mapVars,
                   reducerVars>>

\* lines 117-143: create_partial_map and the renumbering of the atom lists
create_partial_map ==
    /\ pc = "create_partial_map"
    /\ Cardinality(prePartialAtomsSet) # Cardinality(DOMAIN preAtomObjectDict)
    /\ LET partial == partialMappedIDListOf(mappedIDList, prePartialAtomsSet,
                                            postPartialAtomsSet)
           preDictR == renumberedAtomDictOf(partial, 1)
           postDictR0 == renumberedAtomDictOf(partial, 2)
           postDictR == IF createAtoms # NoneList THEN withCreateAtoms(postDictR0, createAtoms)
                        ELSE postDictR0
       IN  IF \/ Cardinality(DOMAIN preDictR) # Cardinality(DOMAIN postDictR0)
              \/ renumberFails(preBondingAtoms, preDictR)
              \/ renumberFails(preDeleteAtoms, preDictR)
              \/ renumberFails(postBondingAtoms, postDictR0)
              \/ renumberFails(postDeleteAtoms, postDictR0)
              \/ renumberFails(preEdgeAtoms, preDictR)
           THEN /\ pc' = "crash"
                /\ UNCHANGED <<listVars, mappedIDList, reducerVars>>
           ELSE /\ pc' = "lammps_to_molecule"
                /\ mappedIDList' = renumberedMappedIDListOf(partial)
                /\ partialMappedIDList' = partial
                /\ preRenumberedAtomDict' = preDictR
                /\ postRenumberedAtomDict' = postDictR
                /\ preBondingAtoms' = renumber(preBondingAtoms, preDictR)
                /\ preDeleteAtoms' = renumber(preDeleteAtoms, preDictR)
                /\ postBondingAtoms' = renumber(postBondingAtoms, postDictR0)
                /\ postDeleteAtoms' = renumber(postDeleteAtoms, postDictR0)
                /\ preEdgeAtoms' = renumber(preEdgeAtoms, preDictR)
                /\ createAtoms' = renumber(createAtoms, postDictR)
                /\ UNCHANGED <<prePartialAtomsSet, postPartialAtomsSet, outputData>>
    /\ UNCHANGED <<inputVars, resolverVars, rerunVars, poolVars, preAtomObjectDict,
                   postAtomObjectDict, missingPreAtomList, missingPostAtomList,
                   queue, timeoutCounter, inference, missingPreAtomCount,
                   missingPreAtomsBefore>>

\* lines 147-151: both molecule files are rebuilt from the partial structure
lammps_to_molecule ==
    /\ pc = "lammps_to_molecule"
    /\ pc' = IF \/ refineFails(DOMAIN types[1], prePartialAtomsSet, preRenumberedAtomDict)
                \/ refineFails(DOMAIN types[2], postPartialAtomsSet, postRenumberedAtomDict)
             THEN "crash" ELSE "output_map"
    /\ UNCHANGED <<inputVars, resolverVars, rerunVars, poolVars, listVars, mapVars,
                   reducerVars>>

\* lines 154-157: the mapping record is built and saved; a pair without a
\* post id cannot be written
output_map_stage ==
    /\ pc = "output_map"
    /\ IF \E i \in 1..Len(mappedIDList) : mappedIDList[i][2] = None
       THEN /\ pc' = "crash"
            /\ UNCHANGED outputData
       ELSE /\ pc' = "emitted"
            /\ outputData' = output_map(mappedIDList, preBondingAtoms, preEdgeAtoms,
                                        preDeleteAtoms, createAtoms)
    /\ UNCHANGED <<inputVars, resolverVars, rerunVars, poolVars, listVars, mapVars,
                   prePartialAtomsSet, postPartialAtomsSet, preEdgeAtoms,
                   partialMappedIDList, preRenumberedAtomDict,
                   postRenumberedAtomDict>>

Next ==
    \/ queue_bond_atoms
    \/ map_delete_atoms
    \/ run_queue
    \/ first_update
    \/ reconcile_round
    \/ round_end
    \/ timeout_exit
    \/ map_from_path_return
    \/ is_ring_opening_stage
    \/ keep_all_neighbours_stage
    \/ edge_stage
    \/ get_byproducts_stage
    \/ no_truncation
    \/ create_partial_map
    \/ lammps_to_molecule
    \/ output_map_stage

Spec == Init /\ [][Next]_vars

\* the positions at which the computation has ended
Final == {"emitted", "crash", "exit"}

\* the computation is not suspended. Next is enabled exactly at the positions
\* that are not final, so weak fairness of Next says: the computation is at
\* a final position again and again, or it takes a step again and again
SpecFair == Spec /\ ([]<>(pc \in Final) \/ []<><<Next>>_vars)

----------------------------------------------------------------------------
(* The mapping pass run twice on the same input. The second run is a new   *)
(* process: the hashes of the id strings, and with them the iteration      *)
(* order of every set, are chosen anew.                                    *)

RerunInputs ==
    RingInputs \cup ChainInputs \cup SymmetricInputs
      \cup UNION {{Reaction(pb, InFileOrder(AtomsOf(pb), Range(qb) \cup {<<1, 2>>}),
                            Carbons(AtomsOf(pb)), Carbons(AtomsOf(pb)), NoneList) :
                      qb \in PostBondLists(AtomsOf(pb), pb,
                                           Range(AllPairs(AtomsOf(pb))) \ {<<1, 2>>},
                                           MaxEdits)} : pb \in Skeletons}

\* what a run of map_from_path leaves to its caller: the mapping it returns,
\* or nothing after sys.exit()
ResultOf(position, mapping) == <<position, IF position = "mapped" THEN mapping ELSE <<>>>>

rerun ==
    /\ pc \in {"mapped", "exit"}
    /\ run = 1
    /\ run' = 2
    /\ firstResult' = [result |-> ResultOf(pc, mappedIDList), order |-> hashOrder]
    /\ \E order \in HashOrders :
          /\ hashOrder' = order
          /\ preAtomObjectDict' = build_atom_objects(bonds[1], types[1], preBondingAtoms,
                                                     <<>>, order)
          /\ postAtomObjectDict' = build_atom_objects(bonds[2], types[2], postBondingAtoms,
                                                      createAtoms, order)
    /\ mappedIDList' = <<>>
    /\ missingPreAtomList' = <<>>
    /\ missingPostAtomList' = <<>>
    /\ queue' = <<>>
    /\ timeoutCounter' = 1
    /\ inference' = FALSE
    /\ missingPreAtomCount' = 0
    /\ missingPreAtomsBefore' = 0
    /\ pc' = "queue_bond_atoms"
    /\ UNCHANGED <<bonds, types, args, listVars, reducerVars, poolVars, resolverVars>>

InitRerun ==
    \E inp \in RerunInputs, order \in HashOrders : InitWith(inp, order) /\ Alone

NextRerun ==
    \/ queue_bond_atoms
    \/ map_delete_atoms
    \/ run_queue
    \/ first_update
    \/ reconcile_round
    \/ round_end
    \/ timeout_exit
    \/ map_from_path_return
    \/ rerun

SpecRerun == InitRerun /\ [][NextRerun]_vars

----------------------------------------------------------------------------
(* Two computations in the threads of one pool (run_parallel). Each thread *)
(* goes through the restore_dir blocks of map_processor; the working       *)
(* directory belongs to the process.                                       *)

Threads == {1, 2}

\* the directory argument of each computation
directory == <<"A", "B">>

\* the restore_dir blocks of map_processor without truncation, each with an
\* os.chdir(directory) and file reads or writes relative to it
blocks == <<"lammps_to_molecule pre", "lammps_to_molecule post", "map_from_path",
            "element_atomID_dict", "output_map">>

InitPool ==
    /\ InitWith(CHOOSE inp \in SymmetricInputs : TRUE, IdentityOrder)
    /\ run = 1
    /\ firstResult = <<>>
    /\ cwd = "home"
    /\ thread = [t \in Threads |->
                    [block |-> 1, step |-> "getcwd", startDir |-> "home", files |-> {}]]

frozen == <<inputVars, listVars, mapVars, reducerVars, pc, rerunVars, resolverVars>>

\* restore_dir: startDir = os.getcwd()
getcwd(t) ==
    /\ thread[t].block <= Len(blocks)
    /\ thread[t].step = "getcwd"
    /\ thread' = [thread EXCEPT ![t].startDir = cwd, ![t].step = "chdir"]
    /\ UNCHANGED <<cwd, frozen>>

\* os.chdir(directory) at the head of the block
chdir(t) ==
    /\ thread[t].step = "chdir"
    /\ cwd' = directory[t]
    /\ thread' = [thread EXCEPT ![t].step = "open"]
    /\ UNCHANGED frozen

\* open(fileName) and save_text_file(fileName): the name is resolved in the
\* working directory of the process
open(t) ==
    /\ thread[t].step = "open"
    /\ thread' = [thread EXCEPT ![t].files = @ \cup {cwd}, ![t].step = "restore"]
    /\ UNCHANGED <<cwd, frozen>>

\* restore_dir: finally os.chdir(startDir)
restore(t) ==
    /\ thread[t].step = "restore"
    /\ cwd' = thread[t].startDir
    /\ thread' = [thread EXCEPT ![t].block = @ + 1, ![t].step = "getcwd"]
    /\ UNCHANGED frozen

NextPool == \E t \in Threads : getcwd(t) \/ chdir(t) \/ open(t) \/ restore(t)

SpecPool == InitPool /\ [][NextPool]_vars


----------------------------------------------------------------------------
(* The symmetry resolver on its own: compare_symmetric_atoms called with a *)
(* reference atom of the pre graph and candidates of the post graph, as    *)
(* map_elements and map_missing_atoms call it (at least two candidates,    *)
(* all of the reference atom's element, which is not hydrogen).            *)

MaxCandidates == 3

\* the reference atom and the candidates are taken from the atoms up to this id
MaxCandidateID == 6

\* six atoms, any of five bonds, atoms 5 and 6 of any element (atom 6 of the
\* pre file is carbon)
ResolverBonds == {<<1, 3>>, <<1, 4>>, <<3, 5>>, <<4, 6>>, <<5, 6>>}

ResolverTypes(x, y) == [a \in 1..6 |-> IF a = 5 THEN x ELSE IF a = 6 THEN y ELSE 1]

SmallResolverInputs ==
    {Reaction(pb, pb, pty, qty, NoneList) :
        pb \in {InFileOrder(6, S) : S \in SUBSET ResolverBonds},
        pty \in {ResolverTypes(x, 1) : x \in {1, 3, 4}},
        qty \in {ResolverTypes(x, y) : x, y \in {1, 3, 4}}}

\* atoms 3 and 4 on one anchor, each with a branch of three atoms whose
\* outer atoms are carbon or nitrogen, and hydrogen
BranchBonds ==
    <<(<<1, 3>>), <<1, 4>>, <<3, 5>>, <<4, 6>>, <<5, 7>>, <<5, 9>>, <<6, 8>>, <<6, 10>>>>

BranchTypes(x, y) ==
    [a \in 1..10 |-> IF a = 7 THEN x ELSE IF a = 8 THEN y ELSE IF a > 8 THEN 3 ELSE 1]

BranchInputs ==
    {Reaction(BranchBonds, BranchBonds, pty, qty, NoneList) :
        pty \in {BranchTypes(x, y) : x, y \in {1, 4}},
        qty \in {BranchTypes(x, y) : x, y \in {1, 4}}}

\* atoms 3 and 4 each at the end of an arm of three atoms of carbon or
\* nitrogen; the arm of atom 4 of the pre file is all carbon
ArmBonds == <<(<<3, 5>>), <<4, 6>>, <<5, 7>>, <<6, 8>>, <<7, 9>>, <<8, 10>>>>

ArmTypes(x, y) == [a \in 1..10 |-> IF a < 5 THEN 1 ELSE IF a % 2 = 1 THEN x[(a - 3) \div 2]
                                                         ELSE y[(a - 4) \div 2]]

ArmInputs ==
    {Reaction(ArmBonds, ArmBonds, ArmTypes(x, <<1, 1, 1>>), ArmTypes(y, z), NoneList) :
        x \in [1..3 -> {1, 4}], y \in [1..3 -> {1, 4}], z \in [1..3 -> {1, 4}]}

ResolverInputs == SmallResolverInputs \cup BranchInputs \cup ArmInputs

DescendingOrder == [a \in 0..MaxAtomID |-> MaxAtomID - a]

InitResolver == \E inp \in ResolverInputs : InitWith(inp, IdentityOrder) /\ Alone

\* one call of compare_symmetric_atoms on the graphs just built
compare_symmetric_atoms_call ==
    /\ pc = "queue_bond_atoms"
    /\ \E preNeighbourAtom \in DOMAIN preAtomObjectDict \cap 3..MaxCandidateID,
          S \in SUBSET (DOMAIN postAtomObjectDict \cap 3..MaxCandidateID),
          order \in {IdentityOrder, DescendingOrder},
          outputType \in {"index", "atomID"},
          allowInference \in BOOLEAN :
          /\ Cardinality(S) \in 2..MaxCandidates
          /\ preAtomObjectDict[preNeighbourAtom].element # "H"
          /\ \A c \in S : postAtomObjectDict[c].element
                              = preAtomObjectDict[preNeighbourAtom].element
          /\ symmetryCall' =
                [postNeighbourAtomObjectList |-> SetToList(S, order),
                 preNeighbourAtom |-> preNeighbourAtom,
                 outputType |-> outputType,
                 allowInference |-> allowInference,
                 returned |-> compare_symmetric_atoms(SetToList(S, order),
                                  postAtomObjectDict, preNeighbourAtom,
                                  preAtomObjectDict, outputType, allowInference)]
    /\ pc' = "compared"
    /\ UNCHANGED <<inputVars, rerunVars, poolVars, listVars, mapVars, reducerVars>>

NextResolver == compare_symmetric_atoms_call

SpecResolver == InitResolver /\ [][NextResolver]_vars

----------------------------------------------------------------------------
(* Properties of the mapping pass, the template reducer, a second run and  *)
(* two computations in one process.                                        *)

\* the positions of the mapping pass once the deletion pairs are appended
InMappingPass == {"run_queue", "loop", "round_queue", "mapped", "exit"}

\* the positions of map_processor after map_from_path has returned
AfterMapping ==
    {"mapped", "keep_all_neighbours", "find_edge_atoms", "get_byproducts",
     "create_partial_map", "lammps_to_molecule", "output_map", "emitted", "crash"}

\* the positions at which the partial atom sets are final
SetsFinal == {"create_partial_map", "lammps_to_molecule", "output_map", "emitted"}

\* no pre id and no post id in two pairs
Injective(mapping) ==
    \A i, j \in 1..Len(mapping) :
        i # j => mapping[i][1] # mapping[j][1] /\ mapping[i][2] # mapping[j][2]

\* C1: when map_from_path returns normally, no pre id and no post id occurs
\* in more than one pair of the mapping list.
C1_MappingInjective == pc = "mapped" => Injective(mappedIDList)

\* C2: when map_from_path returns normally, every atom of the pre file and
\* every atom of the post file that is no create atom occurs in some pair of
\* the mapping list.
C2_EveryAtomMapped ==
    pc = "mapped" =>
        /\ DOMAIN types[1] \subseteq Range(Column(mappedIDList, 1))
        /\ (DOMAIN types[2] \ (IF createAtoms = NoneList THEN {} ELSE Range(createAtoms)))
               \subseteq Range(Column(mappedIDList, 2))

\* C3: the reconciler runs at most 10 rounds (the counter starts at 1 and
\* never passes 11); a computation goes on past map_from_path only with no
\* pre atom missing; when pre atoms are missing after the 10th round the
\* next step is the fatal exit, which is final and leaves no mapping record.
C3_TenRoundsThenFatal ==
    /\ [](timeoutCounter \in 1..11)
    /\ [](pc \in AfterMapping => Len(missingPreAtomList) = 0)
    /\ [](pc = "exit" => /\ timeoutCounter = 11
                         /\ Len(missingPreAtomList) > 0
                         /\ outputData = <<>>)
    /\ [][(pc = "loop" /\ timeoutCounter = 11 /\ Len(missingPreAtomList) > 0)
              => pc' = "exit"]_vars
    /\ [][pc # "exit"]_vars

\* ten rounds were run and pre atoms are still missing: the fatal exit
C3_FatalAfterTenRounds ==
    pc = "exit" /\ timeoutCounter = 11 /\ Len(missingPreAtomList) > 0

\* C4: from map_delete_atoms on to the return of the mapping pass, every
\* declared deletion pair (preDel[i], postDel[i]) is in the mapping list, and
\* the only pairs that hold a deletion atom id are these, at the places where
\* map_delete_atoms put them.
C4_DeletionPairsVerbatim ==
    (pc \in InMappingPass /\ preDeleteAtoms # NoneList) =>
        /\ \A i \in 1..Len(preDeleteAtoms) :
              /\ Len(preBondingAtoms) + i <= Len(mappedIDList)
              /\ mappedIDList[Len(preBondingAtoms) + i]
                    = <<preDeleteAtoms[i], postDeleteAtoms[i]>>
        /\ \A k \in 1..Len(mappedIDList) :
              (\/ mappedIDList[k][1] \in Range(preDeleteAtoms)
               \/ mappedIDList[k][2] \in Range(postDeleteAtoms))
                  => k \in {Len(preBondingAtoms) + i : i \in 1..Len(preDeleteAtoms)}

\* the pass returned a mapping with a deletion pair whose atoms are bonded to
\* other atoms on both sides and differ in their id, and with a pair that
\* the graph search added
C4_DeletionAtomsInTheGraph ==
    /\ pc = "mapped"
    /\ preDeleteAtoms # NoneList
    /\ \A i \in 1..Len(preDeleteAtoms) :
          /\ preAtomObjectDict[preDeleteAtoms[i]].firstNeighbourIDs # <<>>
          /\ postAtomObjectDict[postDeleteAtoms[i]].firstNeighbourIDs # <<>>
    /\ preDeleteAtoms # postDeleteAtoms
    /\ Len(mappedIDList) > Len(preBondingAtoms) + Len(preDeleteAtoms)

\* C5: two computations in the threads of one process share no state: every
\* file a computation opens is in its own directory, as when it runs alone.
C5_OwnDirectoryOnly ==
    \A t \in Threads : thread[t].files \subseteq {directory[t]}

\* C6: the second run of the mapping pass on the same input ends as the first
\* did, with the same mapping list, pair for pair and in the same order.
C6_SecondRunIdentical ==
    (run = 2 /\ pc \in {"mapped", "exit"}) =>
        ResultOf(pc, mappedIDList) = firstResult.result

\* the second run returned a mapping, and it ran with another iteration
\* order of the sets, under which some atom's second neighbours are listed
\* in another order than in the first run
C6_SecondRunOtherOrder ==
    /\ run = 2
    /\ pc = "mapped"
    /\ firstResult.order # hashOrder
    /\ \E a \in DOMAIN preAtomObjectDict :
          preAtomObjectDict[a].secondNeighbourIDs #
              build_atom_objects(bonds[1], types[1], preBondingAtoms, <<>>,
                                 firstResult.order)[a].secondNeighbourIDs

\* the ring at an anchor: the cycle is_cyclic finds through the anchor
RingAt(b) ==
    cyclic_search(moleculeGraphOf(preAtomObjectDict),
                  preAtomObjectDict[b].firstNeighbourIDs, b, NoPath)

\* C7: every atom of the ring at a pre anchor is in the final pre-side
\* partial atom set, whether the ring opens in the reaction or not.
C7_RingPreserved ==
    pc \in SetsFinal =>
        \A b \in Range(args.preBondingAtoms) : Range(RingAt(b)) \subseteq prePartialAtomsSet

\* C8: after the extension and the second find_edge_atoms, no edge atom has
\* a kind mismatch with its mapped post atom at itself (distance 3), at a
\* first neighbour (2) or at a second neighbour (1).
C8_EdgeAtomsMatch ==
    (pc = "get_byproducts" /\ preEdgeAtoms # NoneList) =>
        \A i \in 1..Len(preEdgeAtoms) :
            extendDistance(preEdgeAtoms[i], mappedIDDictOf(mappedIDList),
                           preAtomObjectDict, postAtomObjectDict) \notin 1..3

\* d maps the set ids one-to-one onto 1..K
BijectionOnto(d, ids, K) ==
    /\ DOMAIN d = ids
    /\ Values(d) = 1..K
    /\ Cardinality(ids) = K

\* the filtered mapping list create_partial_map is about to renumber
FilteredMapping ==
    partialMappedIDListOf(mappedIDList, prePartialAtomsSet, postPartialAtomsSet)

\* C9: when the map is truncated, each renumbering dict of create_partial_map
\* maps the ids of its side in the filtered mapping list one-to-one onto 1..K,
\* K the number of retained pairs.
C9_RenumberBijective ==
    (/\ pc = "create_partial_map"
     /\ Cardinality(prePartialAtomsSet) # Cardinality(DOMAIN preAtomObjectDict)) =>
        /\ BijectionOnto(renumberedAtomDictOf(FilteredMapping, 1),
                         Range(Column(FilteredMapping, 1)), Len(FilteredMapping))
        /\ BijectionOnto(renumberedAtomDictOf(FilteredMapping, 2),
                         Range(Column(FilteredMapping, 2)), Len(FilteredMapping))

\* some pair has exactly one of its ids in its side's partial atom set
OneSidedPair ==
    OneSided(mappedIDList, prePartialAtomsSet, postPartialAtomsSet) # {}

\* C10: with a pair that has exactly one id in its side's partial atom set,
\* create_partial_map returns no renumbered mapping, and without truncation
\* no mapping record is written from the sets.
C10_OneSidedAborts ==
    [][/\ (pc = "create_partial_map" /\ OneSidedPair) => pc' # "lammps_to_molecule"
       /\ (/\ pc = "output_map"
           /\ Cardinality(prePartialAtomsSet) = Cardinality(DOMAIN preAtomObjectDict)
           /\ OneSidedPair) => pc' # "emitted"]_vars

\* the truncation guard of map_processor (line 117) is false
NotTruncated == Cardinality(prePartialAtomsSet) = Cardinality(DOMAIN preAtomObjectDict)

\* the halves of the caller's deleteAtoms
DeclaredDeleteAtoms(side) ==
    IF args.deleteAtoms = NoneList THEN NoneList
    ELSE SubSeq(args.deleteAtoms, (side - 1) * (Len(args.deleteAtoms) \div 2) + 1,
                side * (Len(args.deleteAtoms) \div 2))

\* C11: when the pre PartialAtomSet has as many atoms as the pre molecule, the
\* emitted equivalences are the pairs of the full mapping with their original
\* ids (the reducer only reorders them) and the anchor, deletion, edge and
\* creation lists are emitted as declared; otherwise every emitted pair is the
\* renumbering of a pair whose two ids are inside their PartialAtomSets.
C11_TruncationOnlyWhenSmaller ==
    /\ [](pc = "emitted" /\ NotTruncated =>
            /\ outputData.equivalences = mappedIDList
            /\ outputData.BondingIDs = args.preBondingAtoms
            /\ outputData.DeleteIDs = DeclaredDeleteAtoms(1)
            /\ outputData.EdgeIDs = find_edge_atoms(preAtomObjectDict, prePartialAtomsSet, hashOrder)
            /\ outputData.CreateIDs = args.createAtoms)
    /\ [][(/\ pc \in {"find_edge_atoms", "get_byproducts", "create_partial_map", "output_map"}
           /\ NotTruncated'
           /\ pc' # "crash"
           /\ \A i \in 1..Len(mappedIDList') : mappedIDList'[i][2] # None)
          => /\ Range(mappedIDList') = Range(mappedIDList)
             /\ Len(mappedIDList') = Len(mappedIDList)]_vars
    /\ [](pc = "emitted" /\ ~NotTruncated =>
            /\ Len(outputData.equivalences) = Len(partialMappedIDList)
            /\ \A i \in 1..Len(partialMappedIDList) :
                  /\ partialMappedIDList[i][1] \in prePartialAtomsSet
                  /\ partialMappedIDList[i][2] \in postPartialAtomsSet
                  /\ outputData.equivalences[i] =
                        <<preRenumberedAtomDict[partialMappedIDList[i][1]],
                          postRenumberedAtomDict[partialMappedIDList[i][2]]>>)

\* a record emitted without truncation for a reaction with create atoms
C11_EmittedUntruncated ==
    /\ pc = "emitted"
    /\ NotTruncated
    /\ args.createAtoms # NoneList
    /\ Len(outputData.equivalences) = Cardinality(DOMAIN preAtomObjectDict)
    /\ Len(outputData.equivalences) > 2

\* the section keywords and the count words in the order of the record
SectionNames == <<"BondingIDs", "DeleteIDs", "EdgeIDs", "CreateIDs", "Equivalences">>
CountWords == <<"equivalences", "deleteIDs", "edgeIDs", "createIDs">>

\* the position of the first line of a kind with a text, 0 when there is none
LineAt(lines, kind, text) ==
    IF \E i \in 1..Len(lines) : lines[i].kind = kind /\ lines[i].text = text
    THEN Min({i \in 1..Len(lines) : lines[i].kind = kind /\ lines[i].text = text})
    ELSE 0

\* the number of lines of a section: those after its keyword up to the next
\* keyword or the end of the record
SectionLength(lines, name) ==
    LET start == LineAt(lines, "section", name)
        next == Min({i \in (start + 1)..Len(lines) : lines[i].kind = "section"}
                      \cup {Len(lines) + 1})
    IN  next - start - 1

\* an optional part of the record: its count line and its section are both
\* present, with the count equal to the section's length, or both absent
OptionalSection(lines, word, name, present) ==
    /\ (LineAt(lines, "count", word) # 0) = present
    /\ (LineAt(lines, "section", name) # 0) = present
    /\ present => lines[LineAt(lines, "count", word)].a = SectionLength(lines, name)

\* C12: the emitted record is the header, the equivalences count, the count
\* lines, then the sections BondingIDs, DeleteIDs, EdgeIDs, CreateIDs and
\* Equivalences in this order; the deleteIDs, edgeIDs and createIDs parts are
\* present exactly when deletions were declared, an edge atom exists, creations
\* were declared; every count equals the length of its section.
C12_RecordLayout ==
    pc = "emitted" =>
        LET lines == outputData.lines
        IN  /\ lines[1].kind = "header"
            /\ LineAt(lines, "count", "equivalences") = 2
            /\ lines[2].a = SectionLength(lines, "Equivalences")
            /\ lines[2].a = Len(outputData.equivalences)
            /\ \A i \in 1..Len(lines) :
                  /\ lines[i].kind = "count" =>
                        /\ i < LineAt(lines, "section", "BondingIDs")
                        /\ lines[i].text \in Range(CountWords)
                        /\ LineAt(lines, "count", lines[i].text) = i
                  /\ lines[i].kind = "section" =>
                        /\ lines[i].text \in Range(SectionNames)
                        /\ LineAt(lines, "section", lines[i].text) = i
                  /\ lines[i].kind \in {"id", "pair"} =>
                        (lines[i].kind = "pair") = (i > LineAt(lines, "section", "Equivalences"))
                  /\ lines[i].kind = "header" => i = 1
            /\ \A j, k \in 1..Len(CountWords) :
                  (/\ j < k
                   /\ LineAt(lines, "count", CountWords[j]) # 0
                   /\ LineAt(lines, "count", CountWords[k]) # 0)
                  => LineAt(lines, "count", CountWords[j]) < LineAt(lines, "count", CountWords[k])
            /\ \A j, k \in 1..Len(SectionNames) :
                  (/\ j < k
                   /\ LineAt(lines, "section", SectionNames[j]) # 0
                   /\ LineAt(lines, "section", SectionNames[k]) # 0)
                  => LineAt(lines, "section", SectionNames[j]) < LineAt(lines, "section", SectionNames[k])
            /\ LineAt(lines, "section", "BondingIDs") # 0
            /\ LineAt(lines, "section", "Equivalences") # 0
            /\ OptionalSection(lines, "deleteIDs", "DeleteIDs", args.deleteAtoms # NoneList)
            /\ OptionalSection(lines, "edgeIDs", "EdgeIDs",
                   find_edge_atoms(preAtomObjectDict, prePartialAtomsSet, hashOrder) # NoneList)
            /\ OptionalSection(lines, "createIDs", "CreateIDs", args.createAtoms # NoneList)

\* a record with edge atoms and create atoms and without deletions
C12_RecordWithEdgeAndCreate ==
    /\ pc = "emitted"
    /\ LineAt(outputData.lines, "section", "EdgeIDs") # 0
    /\ LineAt(outputData.lines, "section", "CreateIDs") # 0
    /\ LineAt(outputData.lines, "section", "DeleteIDs") = 0
    /\ SectionLength(outputData.lines, "Equivalences") > 2

\* the positions of map_from_path from which a step of the mapping pass is
\* taken (queue_bond_atoms, map_delete_atoms, run_queue, map_missing_atoms)
MappingSteps == {"queue_bond_atoms", "map_delete_atoms", "run_queue", "loop", "round_queue"}

NeighbourLevels == {"firstNeighbourElements", "secondNeighbourElements", "thirdNeighbourElements"}

\* the fixed lists of every Atom are the same in both dicts, and the working
\* list of after is what is left of the working list of before
ShellsKept(before, after) ==
    /\ DOMAIN after = DOMAIN before
    /\ \A a \in DOMAIN before :
          /\ after[a].firstNeighbourIDs = before[a].firstNeighbourIDs
          /\ after[a].secondNeighbourIDs = before[a].secondNeighbourIDs
          /\ after[a].thirdNeighbourIDs = before[a].thirdNeighbourIDs
          /\ \A level \in NeighbourLevels :
                LevelElements(after, a, level) = LevelElements(before, a, level)
          /\ after[a].mappedNeighbourIDs =
                SelectSeq(before[a].mappedNeighbourIDs,
                          LAMBDA x : x \in Range(after[a].mappedNeighbourIDs))

\* C13: no step of the mapping pass changes the first, second or third
\* neighbour ids or elements of any Atom; the working list mappedNeighbourIDs
\* only loses entries.
C13_ShellsFixed ==
    [][(pc \in MappingSteps) =>
          (ShellsKept(preAtomObjectDict, preAtomObjectDict')
             /\ ShellsKept(postAtomObjectDict, postAtomObjectDict'))]_vars

\* after a reconciliation round an Atom on each side has lost working entries
C13_WorkingListsShrunk ==
    /\ pc = "round_queue"
    /\ queue = <<>>
    /\ \E a \in DOMAIN preAtomObjectDict :
          /\ Len(preAtomObjectDict[a].firstNeighbourIDs) > 1
          /\ Len(preAtomObjectDict[a].mappedNeighbourIDs) < Len(preAtomObjectDict[a].firstNeighbourIDs)
    /\ \E a \in DOMAIN postAtomObjectDict :
          /\ Len(postAtomObjectDict[a].firstNeighbourIDs) > 1
          /\ postAtomObjectDict[a].mappedNeighbourIDs = <<>>

\* the three shells of an Atom as sets
Shell(atomObjectDict, a, k) ==
    Range(CASE k = 1 -> atomObjectDict[a].firstNeighbourIDs
            [] k = 2 -> atomObjectDict[a].secondNeighbourIDs
            [] k = 3 -> atomObjectDict[a].thirdNeighbourIDs)

\* no shell of any Atom holds an anchor or the atom itself, and the shells of
\* an Atom are pairwise disjoint
ShellsExclude(atomObjectDict, bondingAtoms) ==
    \A a \in DOMAIN atomObjectDict :
        /\ \A k \in 1..3 :
              /\ Shell(atomObjectDict, a, k) \cap Range(bondingAtoms) = {}
              /\ a \notin Shell(atomObjectDict, a, k)
        /\ \A j, k \in 1..3 :
              j # k => Shell(atomObjectDict, a, j) \cap Shell(atomObjectDict, a, k) = {}

\* C14: for every Atom built by build_atom_objects, no anchor id is in its
\* first, second or third neighbour list, the three lists are pairwise
\* disjoint and none holds the atom itself.
C14_ShellsExcludeAnchors ==
    pc = "queue_bond_atoms" =>
        /\ ShellsExclude(preAtomObjectDict, args.preBondingAtoms)
        /\ ShellsExclude(postAtomObjectDict, args.postBondingAtoms)

\* the create atoms the caller declared, as a set of post ids
DeclaredCreateAtoms ==
    IF args.createAtoms = NoneList THEN {} ELSE Range(args.createAtoms)

\* the positions at which mappedIDList is the list of the mapping pass
MappingPass == MappingSteps \cup {"mapped", "exit"}

\* no create atom is a key of the post atom objects or in a neighbour list
CreateAtomsOutsideGraph ==
    /\ DeclaredCreateAtoms \cap DOMAIN postAtomObjectDict = {}
    /\ \A a \in DOMAIN postAtomObjectDict :
          /\ \A k \in 1..3 : Shell(postAtomObjectDict, a, k) \cap DeclaredCreateAtoms = {}
          /\ Range(postAtomObjectDict[a].mappedNeighbourIDs) \cap DeclaredCreateAtoms = {}

AnchorsAndShells(atomObjectDict, bondingAtoms) ==
    Range(bondingAtoms)
      \cup UNION {Shell(atomObjectDict, b, k) : b \in Range(bondingAtoms), k \in 1..3}

\* the declared deletion atoms of a side, as a set
DeclaredDeleteSet(side) ==
    IF args.deleteAtoms = NoneList THEN {} ELSE Range(DeclaredDeleteAtoms(side))

\* C16: the final pre PartialAtomSet holds every pre anchor, the first, second
\* and third neighbours of every pre anchor and every declared pre deletion
\* atom; the final post PartialAtomSet holds the same for the post side and
\* every declared create atom.
C16_AnchorsShellsDeletesCreatesKept ==
    pc \in SetsFinal =>
        /\ AnchorsAndShells(preAtomObjectDict, args.preBondingAtoms) \subseteq prePartialAtomsSet
        /\ DeclaredDeleteSet(1) \subseteq prePartialAtomsSet
        /\ AnchorsAndShells(postAtomObjectDict, args.postBondingAtoms) \subseteq postPartialAtomsSet
        /\ DeclaredDeleteSet(2) \subseteq postPartialAtomsSet
        /\ DeclaredCreateAtoms \subseteq postPartialAtomsSet

\* a truncated template of a reaction with a create atom whose anchor has
\* third neighbours
C16_TruncatedWithThirdShell ==
    /\ pc = "emitted"
    /\ ~NotTruncated
    /\ DeclaredCreateAtoms # {}
    /\ \E b \in Range(args.preBondingAtoms) : Shell(preAtomObjectDict, b, 3) # {}
    /\ \E b \in Range(args.postBondingAtoms) : Shell(postAtomObjectDict, b, 3) # {}

\* the post atoms without a bonded path to postBondingAtoms[0]
Byproducts ==
    {q \in DOMAIN postAtomObjectDict :
        bfs(moleculeGraphOf(postAtomObjectDict), q, args.postBondingAtoms[1], FALSE) = NoPath}

\* the pairs of original ids that the template keeps: all of the mapping
\* without truncation, else those that pass the filter of create_partial_map
TemplatePairs ==
    IF NotTruncated THEN mappedIDList
    ELSE IF pc = "create_partial_map"
         THEN partialMappedIDListOf(mappedIDList, prePartialAtomsSet, postPartialAtomsSet)
         ELSE partialMappedIDList

\* C17: every post atom without a bonded path to postBondingAtoms[0] is in the
\* final post PartialAtomSet, and unless it is a declared deletion atom the
\* template keeps a pair for it (its pair passes the partial-map filter).
C17_ByproductsRetained ==
    pc \in SetsFinal =>
        \A q \in Byproducts :
            /\ q \in postPartialAtomsSet
            /\ q \notin DeclaredDeleteSet(2) =>
                  \E i \in 1..Len(TemplatePairs) : TemplatePairs[i][2] = q

\* C18: the first round of the reconciler runs with inference disabled, and a
\* further round runs with inference enabled exactly when the round before it
\* left as many pre atoms missing as it started with.
C18_InferenceAfterNoProgress ==
    /\ [](pc \in MappingSteps /\ timeoutCounter = 1 => ~inference)
    /\ [][(/\ pc = "round_queue"
           /\ pc' = "loop"
           /\ Len(missingPreAtomList') > 0
           /\ timeoutCounter' < 11)
          => inference' = (Len(missingPreAtomList') = missingPreAtomsBefore)]_vars

\* the pre neighbours that a run of the loop of map_elements pairs on its
\* symmetric branch although no neighbour level resolves the tie
RECURSIVE TiesPaired(_, _, _, _, _, _)
TiesPaired(preIndex, preIDs, allowedMapDict, preDict, postDict, acc) ==
    IF preIndex > Len(preIDs) THEN {}
    ELSE LET preID == preIDs[preIndex]
             neighbour == preDict[preID].element
             next == map_elements_turn(preID, neighbour, allowedMapDict,
                                       preDict, postDict, acc)
             tied == /\ allowedMapDict[neighbour]
                     /\ neighbour # "H"
                     /\ Count(ElementsOf(postDict, acc.postIDs), neighbour) > 1
                     /\ symmetryResultOf(OfElement(acc.postIDs, postDict, neighbour),
                                         postDict, preID, preDict) = None
         IN  (IF tied /\ Len(next.mapList) > Len(acc.mapList) THEN {preID} ELSE {})
                \cup TiesPaired(preIndex + 1, preIDs, allowedMapDict, preDict,
                                postDict, next)

\* TiesPaired for the call of map_elements that run_queue makes on a pair
TiesPairedFor(currentAtoms, preDict, postDict) ==
    TiesPaired(1, preDict[currentAtoms[1]].mappedNeighbourIDs,
               allowed_maps(ElementsOf(preDict, preDict[currentAtoms[1]].mappedNeighbourIDs),
                            ElementsOf(postDict, postDict[currentAtoms[2]].mappedNeighbourIDs)),
               preDict, postDict,
               [mapList |-> <<>>, missingPreAtoms |-> <<>>, queueAtoms |-> <<>>,
                postIDs |-> postDict[currentAtoms[2]].mappedNeighbourIDs])

\* C19: when run_queue calls map_elements on the pair at the head of the
\* queue, no non-hydrogen pre neighbour with several post candidates of its
\* element is paired unless one of the three neighbour levels resolves the
\* tie by a unique fingerprint; an unresolved neighbour gets no pair.
C19_QueueTiesNeverInferred ==
    (pc \in {"run_queue", "round_queue"} /\ queue # <<>>) =>
        TiesPairedFor(Head(queue),
                      check_mapped(preAtomObjectDict, Head(queue)[1], mappedIDList, 1),
                      check_mapped(postAtomObjectDict, Head(queue)[2], mappedIDList, 2)) = {}

\* the three neighbour levels, nearest first
Levels == <<"firstNeighbourElements", "secondNeighbourElements", "thirdNeighbourElements">>

\* the sorted fingerprint of a candidate of the call at a level, and of the
\* reference atom
CandidateFingerprint(i, level) ==
    SortedElements(LevelElements(postAtomObjectDict,
                                 symmetryCall.postNeighbourAtomObjectList[i], Levels[level]))

ReferenceFingerprint(level) ==
    SortedElements(LevelElements(preAtomObjectDict, symmetryCall.preNeighbourAtom,
                                 Levels[level]))

\* the index (from 1) of the candidate the call returned
ReturnedIndex ==
    IF symmetryCall.outputType = "index" THEN symmetryCall.returned
    ELSE IndexOf(symmetryCall.postNeighbourAtomObjectList, symmetryCall.returned)

\* a level of the call gave a result
GaveResult(level) ==
    compare_neighbours(symmetryCall.postNeighbourAtomObjectList, postAtomObjectDict,
                       symmetryCall.preNeighbourAtom, preAtomObjectDict,
                       Levels[level]) # None

\* the returned candidate's fingerprint at the level is that of the reference
\* atom, and of no other candidate
DecidedAt(level) ==
    /\ CandidateFingerprint(ReturnedIndex, level) = ReferenceFingerprint(level)
    /\ \A i \in 1..Len(symmetryCall.postNeighbourAtomObjectList) :
          i # ReturnedIndex =>
              CandidateFingerprint(i, level) # CandidateFingerprint(ReturnedIndex, level)

\* C20: a candidate returned by compare_symmetric_atoms with inference
\* disabled has, at the first neighbour level that gave a result, a sorted
\* fingerprint equal to the reference atom's and different from every other
\* candidate's; no nearer level gave a result.
C20_UniqueFingerprintDecides ==
    (pc = "compared" /\ ~symmetryCall.allowInference /\ symmetryCall.returned # None) =>
        \E level \in 1..3 :
            /\ DecidedAt(level)
            /\ GaveResult(level)
            /\ \A nearer \in 1..(level - 1) : ~GaveResult(nearer)

\* the example: two candidates with the same first-level fingerprint and the
\* second-level neighbours C, C, H and C, N, H (sorted: CCH and CHN), the
\* reference atom's being C, N, H; the call without inference returned the
\* second candidate
C20_SecondLevelDecides ==
    /\ pc = "compared"
    /\ ~symmetryCall.allowInference
    /\ Len(symmetryCall.postNeighbourAtomObjectList) = 2
    /\ CandidateFingerprint(1, 1) = CandidateFingerprint(2, 1)
    /\ CandidateFingerprint(1, 2) = <<"C", "C", "H">>
    /\ CandidateFingerprint(2, 2) = <<"C", "H", "N">>
    /\ ReferenceFingerprint(2) = <<"C", "H", "N">>
    /\ symmetryCall.returned # None
    /\ ReturnedIndex = 2

\* the candidates of the call that have the reference atom's element, by index
SameElementCandidates ==
    {i \in 1..Len(symmetryCall.postNeighbourAtomObjectList) :
        postAtomObjectDict[symmetryCall.postNeighbourAtomObjectList[i]].element
            = preAtomObjectDict[symmetryCall.preNeighbourAtom].element}

\* no neighbour level of the call gave a result
NoLevelDecides == \A level \in 1..3 : ~GaveResult(level)

\* C21: what compare_symmetric_atoms returns is None or denotes one of the
\* candidates it was given (an index into the list in 'index' mode, an id of
\* the list in 'atomID' mode); when no neighbour level gives a result it
\* returns None without inference, and with inference the first candidate in
\* list order that has the reference atom's element.
C21_ResultIsACandidate ==
    pc = "compared" =>
        /\ symmetryCall.returned # None =>
              IF symmetryCall.outputType = "index"
              THEN symmetryCall.returned \in 1..Len(symmetryCall.postNeighbourAtomObjectList)
              ELSE symmetryCall.returned \in Range(symmetryCall.postNeighbourAtomObjectList)
        /\ (NoLevelDecides /\ ~symmetryCall.allowInference) =>
              symmetryCall.returned = None
        /\ (NoLevelDecides /\ symmetryCall.allowInference) =>
              /\ symmetryCall.returned # None
              /\ ReturnedIndex \in SameElementCandidates
              /\ \A i \in SameElementCandidates : ReturnedIndex <= i

\* a call with inference that no level decided, on three candidates listed
\* with the largest id first, returned that first candidate's id
C21_InferredFirstInListOrder ==
    /\ pc = "compared"
    /\ symmetryCall.allowInference
    /\ symmetryCall.outputType = "atomID"
    /\ NoLevelDecides
    /\ Len(symmetryCall.postNeighbourAtomObjectList) = 3
    /\ symmetryCall.postNeighbourAtomObjectList[1] > symmetryCall.postNeighbourAtomObjectList[3]
    /\ symmetryCall.returned = symmetryCall.postNeighbourAtomObjectList[1]

\* a step of run_queue: the pair at the head of the queue is popped
RunQueueStep == pc \in {"run_queue", "round_queue"} /\ queue # <<>> /\ pc' = pc

\* the remaining neighbour list of an atom of the popped pair once the ids
\* mapped on its side are taken out
Remaining(atomObjectDict, a, side) ==
    SelectSeq(atomObjectDict[a].mappedNeighbourIDs,
              LAMBDA x : \A i \in 1..Len(mappedIDList) : mappedIDList[i][side] # x)

\* what a step appends to a list
Appended(before, after) == SubSeq(after, Len(before) + 1, Len(after))

\* the neighbours of an element in a list of ids
NeighboursOf(atomObjectDict, ids, e) == {x \in Range(ids) : atomObjectDict[x].element = e}

\* the position of a hydrogen among the hydrogens of a list of ids
HydrogenRank(atomObjectDict, ids, x) ==
    Cardinality({i \in 1..IndexOf(ids, x) : atomObjectDict[ids[i]].element = "H"})

\* C22: in one step of run_queue, a pre neighbour of an element other than
\* hydrogen that the two remaining lists hold in different numbers is not
\* paired and is recorded missing; the pre hydrogens are paired, in list
\* order, as long as the post atom has a hydrogen left, whatever the counts.
C22_GatedByElementCount ==
    [][RunQueueStep =>
        LET preIDs == Remaining(preAtomObjectDict, Head(queue)[1], 1)
            postIDs == Remaining(postAtomObjectDict, Head(queue)[2], 2)
            paired == Range(Column(Appended(mappedIDList, mappedIDList'), 1))
            missing == Range(Appended(missingPreAtomList, missingPreAtomList'))
        IN  \A x \in Range(preIDs) :
               LET e == preAtomObjectDict[x].element
               IN  IF e = "H"
                   THEN x \in paired <=>
                           HydrogenRank(preAtomObjectDict, preIDs, x)
                              <= Cardinality(NeighboursOf(postAtomObjectDict, postIDs, "H"))
                   ELSE Cardinality(NeighboursOf(preAtomObjectDict, preIDs, e))
                           # Cardinality(NeighboursOf(postAtomObjectDict, postIDs, e))
                        => x \notin paired /\ x \in missing]_vars

\* a pair was popped whose pre atom had two carbon neighbours left and whose
\* post atom one: both pre neighbours are recorded missing and none of the
\* three atoms is in a pair
C22_BothCarbonsDeferred ==
    /\ pc \in {"run_queue", "round_queue"}
    /\ \E k \in 1..Len(mappedIDList) :
          LET pre == preAtomObjectDict[mappedIDList[k][1]]
              post == postAtomObjectDict[mappedIDList[k][2]]
          IN  /\ mappedIDList[k] \notin Range(queue)
              /\ Len(pre.mappedNeighbourIDs) = 2
              /\ Len(post.mappedNeighbourIDs) = 1
              /\ \A x \in Range(pre.mappedNeighbourIDs) :
                    /\ preAtomObjectDict[x].element = "C"
                    /\ x \in Range(missingPreAtomList)
                    /\ x \notin Range(Column(mappedIDList, 1))
              /\ \A z \in Range(post.mappedNeighbourIDs) :
                    /\ postAtomObjectDict[z].element = "C"
                    /\ z \notin Range(Column(mappedIDList, 2))

\* the pairs of the mapping that the caller declared: anchors, then deletions
DeclaredPairs ==
    Len(preBondingAtoms) + (IF preDeleteAtoms = NoneList THEN 0 ELSE Len(preDeleteAtoms))

\* the pairs confirmed by propagation or reconciliation, in order
ConfirmedPairs == SubSeq(mappedIDList, DeclaredPairs + 1, Len(mappedIDList))

\* what a step of the mapping pass pushes onto the queue
Pushed ==
    IF RunQueueStep THEN Appended(Tail(queue), queue') ELSE Appended(queue, queue')

C24_PrunedBeforeMatching ==
    [][RunQueueStep =>
        LET new == Appended(mappedIDList, mappedIDList')
        IN  /\ \A x \in Range(preAtomObjectDict'[Head(queue)[1]].mappedNeighbourIDs) :
                  x \notin Range(Column(mappedIDList, 1))
            /\ \A x \in Range(postAtomObjectDict'[Head(queue)[2]].mappedNeighbourIDs) :
                  x \notin Range(Column(mappedIDList', 2))
            /\ \A i \in 1..Len(new) :
                  /\ new[i][1] \notin Range(Column(mappedIDList, 1))
                  /\ new[i][2] \notin Range(Column(mappedIDList, 2))
                  /\ \A j \in 1..Len(new) :
                        j # i => new[i][1] # new[j][1] /\ new[i][2] # new[j][2]]_vars

\* a pair was popped whose atoms each had a neighbour that was mapped before
\* and a neighbour that was not: the first is pruned on both sides, the second
\* is paired
C24_PrunedAndPaired ==
    /\ pc \in {"run_queue", "round_queue"}
    /\ \E k \in 1..Len(mappedIDList), n \in 1..Len(ConfirmedPairs) :
          LET pre == preAtomObjectDict[mappedIDList[k][1]]
              post == postAtomObjectDict[mappedIDList[k][2]]
          IN  /\ mappedIDList[k] \notin Range(queue)
              /\ ConfirmedPairs[n][1] \in Range(pre.mappedNeighbourIDs)
              /\ ConfirmedPairs[n][2] \in Range(post.firstNeighbourIDs)
              /\ Len(pre.mappedNeighbourIDs) < Len(pre.firstNeighbourIDs)
              /\ Len(post.mappedNeighbourIDs) + 1 < Len(post.firstNeighbourIDs)

\* C25: no step of the mapping pass drops a pre atom from the missing list
\* unless the atom is on the pre side of the mapping after the step, so at the
\* start of every round the list holds every atom recorded missing that is
\* not mapped; the rounds end with the list empty or with the fatal exit.
C25_MissingNeverDropped ==
    /\ [][(pc \in InMappingPass /\ pc' \in InMappingPass) =>
             \A x \in Range(missingPreAtomList) :
                 \/ x \in Range(missingPreAtomList')
                 \/ x \in Range(Column(mappedIDList', 1))]_vars
    /\ [](pc = "mapped" => missingPreAtomList = <<>>)

\* the third round starts with a pre atom in the missing list that is in no
\* pair of the mapping, and pairs confirmed by reconciliation before
C25_StillMissingInThirdRound ==
    /\ pc = "loop"
    /\ timeoutCounter = 3
    /\ missingPreAtomList # <<>>
    /\ \A x \in Range(missingPreAtomList) : x \notin Range(Column(mappedIDList, 1))
    /\ Len(ConfirmedPairs) > 0

\* extendDistanceDict of the edge stage: the edge atoms to extend, each with
\* its extension distance
ExtendDistanceDict ==
    verify_edge_atoms(find_edge_atoms(preAtomObjectDict, prePartialAtomsSet, hashOrder),
                      mappedIDList, preAtomObjectDict, postAtomObjectDict).dict

\* the atoms of the shells 1 to d of an atom
ShellsUpTo(atomObjectDict, a, d) ==
    Range(atomObjectDict[a].firstNeighbourIDs)
      \cup (IF d >= 2 THEN Range(atomObjectDict[a].secondNeighbourIDs) ELSE {})
      \cup (IF d >= 3 THEN Range(atomObjectDict[a].thirdNeighbourIDs) ELSE {})

\* C26: when the edge stage ends, for every edge atom with an extension
\* distance d the atoms of its shells 1 to d are in the pre partial atom set
\* and the atoms of the shells 1 to d of its post counterpart are in the post
\* partial atom set; and the stage appends no pair whose pre id the mapping
\* had before.
C26_ShellsUpToDistanceKept ==
    [][(pc = "find_edge_atoms" /\ pc' = "get_byproducts") =>
          /\ \A i \in 1..Len(ExtendDistanceDict) :
                LET preEdge == ExtendDistanceDict[i][1]
                    d == ExtendDistanceDict[i][2]
                    postEdge == find_mapped_pair(preEdge, mappedIDList)
                IN  /\ ShellsUpTo(preAtomObjectDict, preEdge, d) \subseteq prePartialAtomsSet'
                    /\ ShellsUpTo(postAtomObjectDict, postEdge, d) \subseteq postPartialAtomsSet'
          /\ \A pair \in Range(Appended(mappedIDList, mappedIDList')) :
                pair[1] \notin Range(Column(mappedIDList, 1))]_vars

\* the cycle through a post anchor, as RingAt on the post side
PostRingAt(b) ==
    cyclic_search(moleculeGraphOf(postAtomObjectDict),
                  postAtomObjectDict[b].firstNeighbourIDs, b, NoPath)

\* the pre anchors on a cycle whose post anchors are on none
OpenedAnchors ==
    {i \in 1..Len(preBondingAtoms) :
        /\ RingAt(preBondingAtoms[i]) # NoPath
        /\ PostRingAt(postBondingAtoms[i]) = NoPath}

\* the anchor, the atoms of its cycle and their first neighbours
RingAndNeighbours(b) ==
    {b} \cup Range(RingAt(b))
        \cup UNION {Range(preAtomObjectDict[a].firstNeighbourIDs) : a \in Range(RingAt(b))}

\* C27: after is_ring_opening, for every pre anchor on a cycle whose post
\* anchor is on none, the pre partial atom set holds the anchor, the atoms
\* of the cycle and their first neighbours; the post partial atom set is the
\* set of the post counterparts of the atoms of the pre set, each of them an
\* atom of the post file.
C27_RingOpeningCounterparts ==
    (pc = "keep_all_neighbours" /\ OpenedAnchors # {}) =>
        /\ \A i \in OpenedAnchors :
              RingAndNeighbours(preBondingAtoms[i]) \subseteq prePartialAtomsSet
        /\ postPartialAtomsSet =
              {find_mapped_pair(a, mappedIDList) : a \in prePartialAtomsSet}
        /\ postPartialAtomsSet \subseteq DOMAIN postAtomObjectDict

\* the positions of the template reducer from the ring-opening stage to the
\* emission of the record
ReducerStages ==
    {"mapped", "keep_all_neighbours", "find_edge_atoms", "get_byproducts",
     "create_partial_map", "lammps_to_molecule", "output_map"}

\* C28: through the stages of the template reducer (ring opening, retention
\* of the reaction shells, deletion and create atoms, edge extension,
\* byproducts) and up to the emission of the record, each partial atom set
\* only grows: no step removes an id from either set.
C28_PartialSetsOnlyGrow ==
    [][(pc \in ReducerStages) =>
          (/\ prePartialAtomsSet \subseteq prePartialAtomsSet'
           /\ postPartialAtomsSet \subseteq postPartialAtomsSet')]_vars

\* the sets are final and hold an atom that only the ring-opening stage
\* gave them: an atom of the opened ring's set beyond the three shells of
\* the anchors, which no edge extension adds either
C28_RingAtomKeptToTheEnd ==
    /\ pc = "create_partial_map"
    /\ \E a \in is_ring_opening(is_cyclic(preAtomObjectDict, preBondingAtoms).preserved,
                                 is_cyclic(postAtomObjectDict, postBondingAtoms).preserved,
                                 mappedIDList, preBondingAtoms).pre :
          /\ a \in prePartialAtomsSet
          /\ a \notin extend_edge_atoms(
                          verify_edge_atoms(
                              find_edge_atoms(preAtomObjectDict,
                                  keep_all_neighbours(preAtomObjectDict, preBondingAtoms, {}),
                                  hashOrder),
                              mappedIDList, preAtomObjectDict, postAtomObjectDict).dict,
                          mappedIDList, preAtomObjectDict, postAtomObjectDict,
                          keep_all_neighbours(preAtomObjectDict, preBondingAtoms, {}),
                          {}).pre

\* the number of pairs pushed onto the queue so far: the anchor pairs
\* (queue_bond_atoms) and the confirmed pairs whose pre atom is no hydrogen
Enqueued ==
    Len(preBondingAtoms)
      + Cardinality({i \in 1..Len(ConfirmedPairs) :
                        preAtomObjectDict[ConfirmedPairs[i][1]].element # "H"})

C30_ConfirmedPairsSameElement ==
    [][(pc \in {"run_queue", "loop", "round_queue"} /\ pc' \in InMappingPass) =>
          \A pair \in Range(Appended(mappedIDList, mappedIDList')) :
              /\ pair[2] \in DOMAIN postAtomObjectDict
              /\ preAtomObjectDict[pair[1]].element = postAtomObjectDict[pair[2]].element]_vars

\* the mapping is returned after a reconciliation round, with confirmed
\* pairs of carbons and of hydrogens and a pair of atoms numbered differently
\* in the two files
C30_MixedElementsMapped ==
    /\ pc = "mapped"
    /\ timeoutCounter > 1
    /\ \E i, j \in 1..Len(ConfirmedPairs) :
          /\ preAtomObjectDict[ConfirmedPairs[i][1]].element = "C"
          /\ preAtomObjectDict[ConfirmedPairs[j][1]].element = "H"
    /\ \E i \in 1..Len(ConfirmedPairs) : ConfirmedPairs[i][1] # ConfirmedPairs[i][2]

====
